---- MODULE Spec2Model ----
(***************************************************************************)
(* A model of the iv-sniper trading bot's decision core.                   *)
(*                                                                         *)
(* Part 1, the position watchdog: watchdog/monitor.py (run_watchdog) and   *)
(* position_watchdog/exits.py (ExitManager.close_trade) working on the     *)
(* trade_log table of db/schema.py.                                        *)
(* Part 2, the scanner: scanner/scanner.py (run_scan, _process_stock).     *)
(*                                                                         *)
(* Prices are integers (rupees); the percentages of config.py are applied  *)
(* by cross-multiplying with 100, which is what the float expressions of   *)
(* the source compute on these values.                                     *)
(***************************************************************************)
EXTENDS Integers, Sequences, FiniteSets, TLC

(***************************************************************************)
(* Bounds of the model.                                                    *)
(***************************************************************************)
NumTrades == 2      \* rows of trade_log
MaxDay == 1         \* calendar days the clock runs through
NumProcs == 2       \* hosts that can run a watchdog cycle (ConcSpec)

(***************************************************************************)
(* Program constants (config.py).                                          *)
(***************************************************************************)
EXPIRY_SQUARE_OFF_TIME == 870   \* "14:30", in minutes of the day
SPREAD_TARGET_PCT == 50
SPREAD_SL_PCT == 100

(***************************************************************************)
(* Input domains.                                                          *)
(***************************************************************************)
Trades == 1..NumTrades
Procs == 1..NumProcs
\* times of day a cycle can run at: one minute before the cutoff, the cutoff
Times == {EXPIRY_SQUARE_OFF_TIME - 1, EXPIRY_SQUARE_OFF_TIME}
\* last prices of the short leg and of the long leg.  With net_credit 20 and
\* the long leg at 5 the debits are 9, 10, 15, 40, 45: below, at and between
\* the target (10) and the stop loss (40).
ShortPrices == {14, 15, 20, 45, 50}
LongPrices == {5}

BAD_EXPIRY == 0                 \* an expiry string strptime rejects
NULL_REASON == "NULL"           \* exit columns not set

VARIABLES
    trade_log,       \* the trade_log table: trade_id -> row
    clock,           \* datetime.now(): [day, tod]
    pc,              \* per host: where its run_watchdog call stands
    open_trades,     \* per host: the rows _get_open_trades returned (their ids)
    trade_symbols,   \* per host: ids whose leg symbols were reconstructed
    idx,             \* per host: trades of open_trades the second loop has passed
    now,             \* per host: the `now` taken after the quote fetch
    last,            \* per host: what the second loop did with the trade it handled last
    calls,           \* per host: the close_trade calls of the running cycle
    missed           \* trades a cycle skipped for a missing quote, not handled since

wdVars == <<trade_log, clock, pc, open_trades, trade_symbols, idx, now, last,
            calls, missed>>

(***************************************************************************)
(* trade_log rows.  The exit columns are written together by one UPDATE,   *)
(* so NULL in them is exit_reason = NULL_REASON with the numbers at 0.     *)
(***************************************************************************)
NewRow(status, mode, expiry) ==
    [status |-> status, mode |-> mode, expiry |-> expiry,
     lot_size |-> 50, net_credit |-> 20,
     exit_time |-> [day |-> 0, tod |-> 0],
     exit_short_pr |-> 0, exit_long_pr |-> 0, pnl |-> 0,
     exit_reason |-> NULL_REASON]

\* the rows a trade_log can hold when the watchdog starts
EntryRows ==
    { NewRow("OPEN", "PAPER", 1),
      NewRow("OPEN", "LIVE", 2),
      NewRow("OPEN", "PAPER", BAD_EXPIRY),
      NewRow("ERROR", "LIVE", 1) }

\* one entry of the map kite.quote returns
NoQuote == [present |-> FALSE, wellformed |-> FALSE, last_price |-> 0]
BadQuote == [present |-> TRUE, wellformed |-> FALSE, last_price |-> 0]
Quote(v) == [present |-> TRUE, wellformed |-> TRUE, last_price |-> v]
ShortQuotes == {NoQuote, BadQuote} \cup {Quote(v) : v \in ShortPrices}
LongQuotes == {NoQuote, BadQuote} \cup {Quote(v) : v \in LongPrices}

NoEval == [tid |-> 0, kind |-> "NONE", s_ltp |-> 0, l_ltp |-> 0,
           reason |-> NULL_REASON, placed |-> 0, db_ok |-> FALSE, retry |-> FALSE]

NoNow == [day |-> 0, tod |-> 0]

(***************************************************************************)
(* _get_open_trades: SELECT * FROM trade_log WHERE status = 'OPEN', in     *)
(* rowid order.                                                            *)
(***************************************************************************)
\* variant: every row that is not CLOSED is selected
OpenFromNotClosed(log, t) ==
    LET rows == {r \in t..NumTrades : log[r].status # "CLOSED"}
        F[k \in 0..NumTrades] ==
            IF k = 0 THEN <<>>
            ELSE IF k \in rows THEN Append(F[k - 1], k) ELSE F[k - 1]
    IN F[NumTrades]

RECURSIVE OpenFrom(_, _)
OpenFrom(log, t) ==
    IF t > NumTrades THEN <<>>
    ELSE IF log[t].status = "OPEN" THEN <<t>> \o OpenFrom(log, t + 1)
    ELSE OpenFrom(log, t + 1)

_get_open_trades(log) == OpenFrom(log, 1)

\* first loop of run_watchdog: the trades whose expiry parses
ReconstructSymbols(log, open) ==
    { open[i] : i \in {j \in 1..Len(open) : log[open[j]].expiry # BAD_EXPIRY} }

(***************************************************************************)
(* The exit conditions of run_watchdog, in the order the code tests them.  *)
(***************************************************************************)
IsExpiryCutoff(row, n) ==
    row.expiry = n.day /\ n.tod >= EXPIRY_SQUARE_OFF_TIME

\* variant: the target needs a debit strictly below the target debit
TargetHitStrict(row, debit) ==
    debit * 100 < row.net_credit * (100 - SPREAD_TARGET_PCT)

\* current_spread_debit <= entry_credit * (1 - SPREAD_TARGET_PCT / 100.0)
TargetHit(row, debit) ==
    debit * 100 <= row.net_credit * (100 - SPREAD_TARGET_PCT)

\* current_spread_debit >= entry_credit * (1 + SPREAD_SL_PCT / 100.0)
StopLossHit(row, debit) ==
    debit * 100 >= row.net_credit * (100 + SPREAD_SL_PCT)

\* variant: the profit target is tested before the expiry
ExitDecisionTargetFirst(row, s_ltp, l_ltp, n) ==
    IF TargetHit(row, s_ltp - l_ltp) THEN "TARGET"
    ELSE IF IsExpiryCutoff(row, n) THEN "EXPIRY"
    ELSE IF StopLossHit(row, s_ltp - l_ltp) THEN "SL"
    ELSE NULL_REASON

ExitDecision(row, s_ltp, l_ltp, n) ==
    IF IsExpiryCutoff(row, n) THEN "EXPIRY"
    ELSE IF TargetHit(row, s_ltp - l_ltp) THEN "TARGET"
    ELSE IF StopLossHit(row, s_ltp - l_ltp) THEN "SL"
    ELSE NULL_REASON

(***************************************************************************)
(* ExitManager.close_trade: the P&L and the UPDATE ... WHERE trade_id = ?. *)
(***************************************************************************)
\* variant: the exit debit is the short leg's price alone
ClosePnlShortOnly(row, current_short_pr, current_long_pr) ==
    (row.net_credit - current_short_pr) * row.lot_size

ClosePnl(row, current_short_pr, current_long_pr) ==
    (row.net_credit - (current_short_pr - current_long_pr)) * row.lot_size

ClosedRow(row, reason, current_short_pr, current_long_pr, t) ==
    [row EXCEPT !.status = "CLOSED",
                !.exit_time = t,
                !.exit_short_pr = current_short_pr,
                !.exit_long_pr = current_long_pr,
                !.pnl = ClosePnl(row, current_short_pr, current_long_pr),
                !.exit_reason = reason]

\* square-off orders a close_trade call can get through: none in PAPER mode;
\* in LIVE mode the first or the second place_order may raise, which the
\* call catches and passes over
PlacedOrders(row) == IF row.mode = "LIVE" THEN 0..2 ELSE {0}

\* the UPDATE of close_trade: committed (db_ok), or raised and rolled back
close_trade(log, tid, reason, s, l, t, db_ok) ==
    IF db_ok
    THEN [log EXCEPT ![tid] = ClosedRow(log[tid], reason, s, l, t)]
    ELSE log

(***************************************************************************)
(* run_watchdog, step by step.                                             *)
(***************************************************************************)
\* lines 24-65: read the open trades, rebuild the leg symbols; return when
\* there is nothing to fetch
GetOpenTrades(p) ==
    /\ pc[p] = "idle"
    /\ LET open == _get_open_trades(trade_log)
           syms == ReconstructSymbols(trade_log, open)
       IN /\ open_trades' = [open_trades EXCEPT ![p] = open]
          /\ trade_symbols' = [trade_symbols EXCEPT ![p] = syms]
          /\ pc' = [pc EXCEPT ![p] = IF syms = {} THEN "done" ELSE "fetch"]
    /\ UNCHANGED <<trade_log, clock, idx, now, last, calls, missed>>

\* lines 68-72: kite.quote raises, the cycle returns
FetchQuotesFails(p) ==
    /\ pc[p] = "fetch"
    /\ pc' = [pc EXCEPT ![p] = "done"]
    /\ UNCHANGED <<trade_log, clock, open_trades, trade_symbols, idx, now, last,
                   calls, missed>>

\* lines 68-79: kite.quote returns, `now` is taken
FetchQuotes(p) ==
    /\ pc[p] = "fetch"
    /\ pc' = [pc EXCEPT ![p] = "eval"]
    /\ now' = [now EXCEPT ![p] = clock]
    /\ UNCHANGED <<trade_log, clock, open_trades, trade_symbols, idx, last,
                   calls, missed>>

\* the second loop moves on to the next trade, or ends
Advance(p) ==
    /\ idx' = [idx EXCEPT ![p] = @ + 1]
    /\ pc' = [pc EXCEPT ![p] = IF idx[p] + 1 = Len(open_trades[p]) THEN "done" ELSE "eval"]

\* lines 82-84: no symbols for the trade (its expiry did not parse): continue
EvalNoSymbols(p) ==
    /\ pc[p] = "eval"
    /\ LET tid == open_trades[p][idx[p] + 1]
       IN /\ tid \notin trade_symbols[p]
          /\ last' = [last EXCEPT ![p] = [NoEval EXCEPT !.tid = tid, !.kind = "NOSYMS"]]
    /\ Advance(p)
    /\ UNCHANGED <<trade_log, clock, open_trades, trade_symbols, now, calls, missed>>

\* variant: a leg that is not in the quotes counts with last price 0
EvalMissingQuoteAsZero(p) ==
    /\ pc[p] = "eval"
    /\ LET tid == open_trades[p][idx[p] + 1]
           reason == ExitDecision(trade_log[tid], 0, 0, now[p])
       IN /\ tid \in trade_symbols[p]
          /\ trade_log' = close_trade(trade_log, tid, reason, 0, 0, clock, TRUE)
          /\ calls' = [calls EXCEPT ![p] = Append(@, <<tid, reason>>)]
          /\ last' = [last EXCEPT ![p] = [NoEval EXCEPT !.tid = tid, !.kind = "MISSING",
                                                       !.retry = tid \in missed]]
          /\ missed' = missed \cup {tid}
    /\ Advance(p)
    /\ UNCHANGED <<clock, open_trades, trade_symbols, now>>

\* lines 89-91: a leg is not in the quotes: warn and continue
EvalMissingQuote(p) ==
    /\ pc[p] = "eval"
    /\ LET tid == open_trades[p][idx[p] + 1]
       IN /\ tid \in trade_symbols[p]
          /\ \E qs \in ShortQuotes, ql \in LongQuotes : ~qs.present \/ ~ql.present
          /\ last' = [last EXCEPT ![p] = [NoEval EXCEPT !.tid = tid, !.kind = "MISSING",
                                                       !.retry = tid \in missed]]
          /\ missed' = missed \cup {tid}
    /\ Advance(p)
    /\ UNCHANGED <<trade_log, clock, open_trades, trade_symbols, now, calls>>

\* lines 93-94: both legs are in the quotes but an entry has no usable
\* last_price: the KeyError / TypeError leaves run_watchdog
EvalMalformedQuote(p) ==
    /\ pc[p] = "eval"
    /\ LET tid == open_trades[p][idx[p] + 1]
       IN /\ tid \in trade_symbols[p]
          /\ \E qs \in ShortQuotes, ql \in LongQuotes :
                /\ qs.present /\ ql.present
                /\ ~qs.wellformed \/ ~ql.wellformed
          /\ last' = [last EXCEPT ![p] = [NoEval EXCEPT !.tid = tid, !.kind = "MALFORMED",
                                                       !.retry = tid \in missed]]
    /\ pc' = [pc EXCEPT ![p] = "raised"]
    /\ UNCHANGED <<trade_log, clock, open_trades, trade_symbols, idx, now, calls, missed>>

\* lines 93-146: both prices read; the exit conditions in order; close_trade
EvalPriced(p) ==
    /\ pc[p] = "eval"
    /\ LET tid == open_trades[p][idx[p] + 1]
       IN /\ tid \in trade_symbols[p]
          /\ \E s_ltp \in ShortPrices, l_ltp \in LongPrices :
                LET reason == ExitDecision(trade_log[tid], s_ltp, l_ltp, now[p])
                    seen == [tid |-> tid, kind |-> "PRICED", s_ltp |-> s_ltp,
                             l_ltp |-> l_ltp, reason |-> reason, placed |-> 0,
                             db_ok |-> FALSE, retry |-> tid \in missed]
                IN IF reason = NULL_REASON
                   THEN /\ last' = [last EXCEPT ![p] = seen]
                        /\ UNCHANGED <<trade_log, calls>>
                   ELSE \E placed \in PlacedOrders(trade_log[tid]), db_ok \in BOOLEAN :
                        /\ trade_log' = close_trade(trade_log, tid, reason, s_ltp,
                                                    l_ltp, clock, db_ok)
                        /\ calls' = [calls EXCEPT ![p] = Append(@, <<tid, reason>>)]
                        /\ last' = [last EXCEPT ![p] =
                                        [seen EXCEPT !.placed = placed, !.db_ok = db_ok]]
          /\ missed' = missed \ {tid}
    /\ Advance(p)
    /\ UNCHANGED <<clock, open_trades, trade_symbols, now>>

\* run_watchdog returns ("done") or its exception reaches job(), which logs
\* it ("raised"); either way the call's locals are gone
Return(p) ==
    /\ pc[p] \in {"done", "raised"}
    /\ pc' = [pc EXCEPT ![p] = "idle"]
    /\ open_trades' = [open_trades EXCEPT ![p] = <<>>]
    /\ trade_symbols' = [trade_symbols EXCEPT ![p] = {}]
    /\ idx' = [idx EXCEPT ![p] = 0]
    /\ now' = [now EXCEPT ![p] = NoNow]
    /\ last' = [last EXCEPT ![p] = NoEval]
    /\ calls' = [calls EXCEPT ![p] = <<>>]
    /\ UNCHANGED <<trade_log, clock, missed>>

\* time passes between cycles (a cycle reads the clock within one minute):
\* to the cutoff, then to the minute before the next day's cutoff
Tick ==
    /\ \A p \in Procs : pc[p] = "idle"
    /\ clock.tod < EXPIRY_SQUARE_OFF_TIME \/ clock.day < MaxDay
    /\ clock' = IF clock.tod < EXPIRY_SQUARE_OFF_TIME
                THEN [clock EXCEPT !.tod = EXPIRY_SQUARE_OFF_TIME]
                ELSE [day |-> clock.day + 1, tod |-> EXPIRY_SQUARE_OFF_TIME - 1]
    /\ UNCHANGED <<trade_log, pc, open_trades, trade_symbols, idx, now, last,
                   calls, missed>>

WdInit ==
    /\ trade_log \in [Trades -> EntryRows]
    /\ clock = [day |-> 1, tod |-> EXPIRY_SQUARE_OFF_TIME - 1]
    /\ pc = [p \in Procs |-> "idle"]
    /\ open_trades = [p \in Procs |-> <<>>]
    /\ trade_symbols = [p \in Procs |-> {}]
    /\ idx = [p \in Procs |-> 0]
    /\ now = [p \in Procs |-> NoNow]
    /\ last = [p \in Procs |-> NoEval]
    /\ calls = [p \in Procs |-> <<>>]
    /\ missed = {}

RunWatchdog(p) ==
    \/ GetOpenTrades(p)
    \/ FetchQuotesFails(p)
    \/ FetchQuotes(p)
    \/ EvalNoSymbols(p)
    \/ EvalMissingQuote(p)
    \/ EvalMalformedQuote(p)
    \/ EvalPriced(p)
    \/ Return(p)


(***************************************************************************)
(* Part 2: scanner/scanner.py.                                             *)
(***************************************************************************)
NumStocks == 3          \* equity underlyings of the F&O universe
MaxCandidatesArg == 2   \* largest max_candidates a caller passes

SCANNER_THREAD_POOL_SIZE == 3
IVP_THRESHOLD == 50
\* IVP / HV Rank values get_iv_score returns: below, at and above the threshold
Scores == {40, 50, 60}
MinScores == {IVP_THRESHOLD}

StockNames == <<"AAA", "BBB", "CCC", "DDD", "EEE", "FFF">>
IndexSymbols == {"NIFTY", "BANKNIFTY", "FINNIFTY", "MIDCPNIFTY", "NIFTYNXT50"}

\* get_fno_stocks: the underlyings of the instrument master, indices among them
fno_stocks == <<"NIFTY">> \o SubSeq(StockNames, 1, NumStocks) \o <<"BANKNIFTY">>

\* variant: the index underlyings are left in the list
FilterNone(q) == q

RECURSIVE FilterIndex(_)
FilterIndex(q) ==
    IF q = <<>> THEN <<>>
    ELSE IF Head(q) \in IndexSymbols THEN FilterIndex(Tail(q))
    ELSE <<Head(q)>> \o FilterIndex(Tail(q))

\* run_scan lines 147-152
stock_list == FilterIndex(fno_stocks)
Stocks == {stock_list[i] : i \in 1..Len(stock_list)}
\* line 140: build_nse_token_map; the first stock has no NSE instrument
nse_token_map == {stock_list[i] : i \in 2..Len(stock_list)}

VARIABLES
    scan_pc,          \* run_scan: "idle", "pool" (futures submitted), "returned",
                      \* "invalid_token" (returned before scanning)
    min_score,        \* argument of run_scan
    max_candidates,   \* argument of run_scan
    task,             \* per symbol: the state of its future and what it holds
    all_results,      \* run_scan's all_results list
    scored,           \* run_scan's scored list
    processed_count,  \* update_progress counters
    qualified_count,
    progress_calls,   \* the calls made to progress_callback
    top,              \* the list run_scan returns
    scan_history      \* the scan_history table: records of this scan

scanVars == <<scan_pc, min_score, max_candidates, task, all_results, scored,
              processed_count, qualified_count, progress_calls, top, scan_history>>

Pending == [kind |-> "PENDING", score |-> 0, qualified |-> FALSE, trend_fetch |-> FALSE]

\* what get_iv_score gives: no result (it raised or returned None) or a score
IvResults == {[ok |-> FALSE, score |-> 0]} \cup {[ok |-> TRUE, score |-> v] : v \in Scores}
\* what kite.ltp gives: it raised, no last_price, a spot price
LtpResults == {"raise", "none", "spot"}

\* _process_stock(kite, symbol, nse_token_map, min_score): the value the
\* future ends with.  has_token: nse_token_map has the symbol; crash: an
\* exception that none of the function's try blocks catches.
_process_stock(minscore, has_token, iv, ltp, crash) ==
    IF crash THEN [Pending EXCEPT !.kind = "RAISED"]
    ELSE IF ~iv.ok THEN [Pending EXCEPT !.kind = "NONE"]
    ELSE IF ltp # "spot" THEN [Pending EXCEPT !.kind = "NONE"]
    ELSE [kind |-> "RESULT", score |-> iv.score,
          qualified |-> iv.score >= minscore,
          trend_fetch |-> has_token]

\* the dictionaries run_scan appends to all_results
ResultRecord(symbol, o) ==
    [symbol |-> symbol, has_score |-> TRUE, score |-> o.score, qualified |-> o.qualified]
Placeholder(symbol) ==
    [symbol |-> symbol, has_score |-> FALSE, score |-> 0, qualified |-> FALSE]

\* key of scored.sort: c.get("score", 0) or 0
SortKey(c) == IF c.has_score THEN c.score ELSE 0

\* list.sort(key=..., reverse=True): stable, keys non-increasing
RECURSIVE InsertDesc(_, _)
InsertDesc(sorted, c) ==
    IF sorted = <<>> THEN <<c>>
    ELSE IF SortKey(Head(sorted)) >= SortKey(c)
         THEN <<Head(sorted)>> \o InsertDesc(Tail(sorted), c)
         ELSE <<c>> \o sorted

\* variant: the list is left in the order the futures completed in
SortNone(q) == q

RECURSIVE SortDesc(_)
SortDesc(q) ==
    IF q = <<>> THEN <<>>
    ELSE InsertDesc(SortDesc(SubSeq(q, 1, Len(q) - 1)), q[Len(q)])

\* scored[:max_candidates], max_candidates >= 0
Truncate(q, n) == SubSeq(q, 1, IF n < Len(q) THEN n ELSE Len(q))

Running == {s \in Stocks : task[s].state = "running"}
\* position of a symbol in stock_list
Pos(s) == CHOOSE i \in 1..Len(stock_list) : stock_list[i] = s

\* lines 119-192: the token is checked, the instrument lists are fetched and
\* one future per stock is submitted; an invalid token ends the scan
StartScan ==
    /\ scan_pc = "idle"
    /\ \E m \in MinScores : min_score' = m
    /\ \/ /\ scan_pc' = "pool"
          /\ progress_calls' = <<[msg |-> "Fetching", processed |-> 0,
                                  total |-> 0, qualified |-> 0]>>
       \/ /\ scan_pc' = "invalid_token"
          /\ progress_calls' = <<[msg |-> "Error", processed |-> 0,
                                  total |-> 0, qualified |-> 0]>>
    /\ UNCHANGED <<max_candidates, task, all_results, scored, processed_count,
                   qualified_count, top, scan_history>>

\* ThreadPoolExecutor: a free worker takes the oldest queued task
StartTask(s) ==
    /\ scan_pc = "pool"
    /\ task[s].state = "queued"
    /\ \A r \in Stocks : task[r].state = "queued" => Pos(s) <= Pos(r)
    /\ Cardinality(Running) < SCANNER_THREAD_POOL_SIZE
    /\ task' = [task EXCEPT ![s].state = "running"]
    /\ UNCHANGED <<scan_pc, min_score, max_candidates, all_results, scored,
                   processed_count, qualified_count, progress_calls, top, scan_history>>

\* lines 307-394: the worker runs _process_stock to its end
FinishTask(s) ==
    /\ scan_pc = "pool"
    /\ task[s].state = "running"
    /\ \E iv \in IvResults, ltp \in LtpResults, crash \in BOOLEAN :
          task' = [task EXCEPT ![s] =
                      [state |-> "done",
                       outcome |-> _process_stock(min_score, s \in nse_token_map,
                                                  iv, ltp, crash)]]
    /\ UNCHANGED <<scan_pc, min_score, max_candidates, all_results, scored,
                   processed_count, qualified_count, progress_calls, top, scan_history>>

\* variant: the counter is read before the lock is taken and the increment
\* of a concurrent call is lost every second call
update_progress_lost(qualified) ==
    /\ processed_count' = processed_count + (IF processed_count = 1 THEN 0 ELSE 1)
    /\ qualified_count' = qualified_count + (IF qualified THEN 1 ELSE 0)
    /\ progress_calls' = Append(progress_calls,
          [msg |-> "Processing",
           processed |-> processed_count + (IF processed_count = 1 THEN 0 ELSE 1),
           total |-> Len(stock_list),
           qualified |-> qualified_count + (IF qualified THEN 1 ELSE 0)])

\* lines 169-182: update_progress(symbol, qualified)
update_progress(qualified) ==
    /\ processed_count' = processed_count + 1
    /\ qualified_count' = qualified_count + (IF qualified THEN 1 ELSE 0)
    /\ progress_calls' = Append(progress_calls,
          [msg |-> "Processing", processed |-> processed_count + 1,
           total |-> Len(stock_list),
           qualified |-> qualified_count + (IF qualified THEN 1 ELSE 0)])

\* variant: a task's exception is not caught and leaves run_scan
CollectNoCatch(s) ==
    /\ scan_pc = "pool"
    /\ task[s].state = "done"
    /\ LET o == task[s].outcome
       IN IF o.kind = "RESULT"
          THEN /\ all_results' = Append(all_results, ResultRecord(s, o))
               /\ scored' = IF o.qualified THEN Append(scored, ResultRecord(s, o))
                            ELSE scored
               /\ update_progress(o.qualified)
               /\ scan_pc' = scan_pc
          ELSE IF o.kind = "NONE"
          THEN /\ all_results' = Append(all_results, Placeholder(s))
               /\ scored' = scored
               /\ update_progress(FALSE)
               /\ scan_pc' = scan_pc
          ELSE /\ scan_pc' = "raised"
               /\ UNCHANGED <<all_results, scored, processed_count, qualified_count,
                              progress_calls>>
    /\ task' = [task EXCEPT ![s].state = "collected"]
    /\ UNCHANGED <<min_score, max_candidates, top, scan_history>>

\* variant: a symbol without a result is left out of all_results
CollectSkipFailed(s) ==
    /\ scan_pc = "pool"
    /\ task[s].state = "done"
    /\ LET o == task[s].outcome
       IN IF o.kind = "RESULT"
          THEN /\ all_results' = Append(all_results, ResultRecord(s, o))
               /\ scored' = IF o.qualified THEN Append(scored, ResultRecord(s, o))
                            ELSE scored
               /\ update_progress(o.qualified)
          ELSE /\ UNCHANGED <<all_results, scored>>
               /\ update_progress(FALSE)
    /\ task' = [task EXCEPT ![s].state = "collected"]
    /\ UNCHANGED <<scan_pc, min_score, max_candidates, top, scan_history>>

\* lines 194-235: one turn of the as_completed loop, for a finished future
Collect(s) ==
    /\ scan_pc = "pool"
    /\ task[s].state = "done"
    /\ LET o == task[s].outcome
       IN IF o.kind = "RESULT"
          THEN /\ all_results' = Append(all_results, ResultRecord(s, o))
               /\ scored' = IF o.qualified THEN Append(scored, ResultRecord(s, o))
                            ELSE scored
               /\ update_progress(o.qualified)
          ELSE /\ all_results' = Append(all_results, Placeholder(s))
               /\ scored' = scored
               /\ update_progress(FALSE)
    /\ task' = [task EXCEPT ![s].state = "collected"]
    /\ UNCHANGED <<scan_pc, min_score, max_candidates, top, scan_history>>

\* lines 237-304: every future is collected; sort, truncate, save, return.
\* max_candidates is read here only, so the argument's value is drawn here.
\* saved: bulk_insert_scan_results went through (its failure is caught).
SortAndReturn ==
    /\ scan_pc = "pool"
    /\ \A s \in Stocks : task[s].state = "collected"
    /\ scored' = SortDesc(scored)
    /\ \E n \in 0..MaxCandidatesArg :
          /\ max_candidates' = n
          /\ top' = Truncate(SortDesc(scored), n)
    /\ \E saved \in BOOLEAN :
          scan_history' = IF saved THEN all_results ELSE scan_history
    /\ progress_calls' = progress_calls \o
          <<[msg |-> "Sorting", processed |-> Len(stock_list),
             total |-> Len(stock_list), qualified |-> Len(scored)],
            [msg |-> "Complete", processed |-> Len(stock_list),
             total |-> Len(stock_list), qualified |-> Len(scored)]>>
    /\ scan_pc' = "returned"
    /\ UNCHANGED <<min_score, task, all_results, processed_count, qualified_count>>

ScanInit ==
    /\ scan_pc = "idle"
    /\ min_score = IVP_THRESHOLD
    /\ max_candidates = 0
    /\ task = [s \in Stocks |-> [state |-> "queued", outcome |-> Pending]]
    /\ all_results = <<>>
    /\ scored = <<>>
    /\ processed_count = 0
    /\ qualified_count = 0
    /\ progress_calls = <<>>
    /\ top = <<>>
    /\ scan_history = <<>>

RunScan ==
    \/ StartScan
    \/ \E s \in Stocks : StartTask(s)
    \/ \E s \in Stocks : FinishTask(s)
    \/ \E s \in Stocks : Collect(s)
    \/ SortAndReturn

(***************************************************************************)
(* Part 3, the API client: core/kite_client.py (_api_call_with_retry).     *)
(* An exception's text is a sequence of words; the rate-limit test is the  *)
(* substring test of the source on it.                                     *)
(***************************************************************************)
NumValues == 2              \* values an API function may return

MAX_API_RETRIES == 5
API_BACKOFF_BASE_SECONDS == 2

\* the wrapped functions of KiteClient
ApiFuncs == {"quote", "ltp", "place_order"}
Values == 1..NumValues
\* str(exc) of the exceptions the wrapped call raises
ExcTexts == {<<"Too", "many", "requests">>,
             <<"Rate", "limit", "exceeded">>,
             <<"Too", "many", "orders">>,
             <<"Invalid", "token">>}

\* needle in text, for sequences of words
Contains(text, needle) ==
    \E i \in 0..(Len(text) - Len(needle)) :
        \A j \in 1..Len(needle) : text[i + j] = needle[j]

\* variant: every "Too many ..." message counts as a rate limit
IsRateLimitTooMany(text) ==
    \/ Contains(text, <<"Too", "many">>)
    \/ Contains(text, <<"Rate", "limit">>)

\* line 160: "Too many requests" in str(exc) or "Rate limit" in str(exc)
IsRateLimit(text) ==
    \/ Contains(text, <<"Too", "many", "requests">>)
    \/ Contains(text, <<"Rate", "limit">>)

RECURSIVE Pow(_, _)
Pow(b, e) == IF e = 0 THEN 1 ELSE b * Pow(b, e - 1)

\* variant: the wait does not grow with the attempt
BackoffWaitFixed(k) == API_BACKOFF_BASE_SECONDS

\* line 161: wait = config.API_BACKOFF_BASE_SECONDS ** attempt
BackoffWait(k) == Pow(API_BACKOFF_BASE_SECONDS, k)

VARIABLES
    api_pc,       \* "idle", "calling" (in the try of the loop), "sleeping"
                  \* (in the rate-limit branch), "returned", "raised"
                  \* (the call's own exception), "exhausted" (RuntimeError)
    api_func,     \* the wrapped function
    attempt,      \* the loop variable
    api_log,      \* one entry per invocation of func: what it did
    waits,        \* the time.sleep calls made, in order
    api_out       \* what the caller gets: a value or an exception text

retryVars == <<api_pc, api_func, attempt, api_log, waits, api_out>>

NoOut == [kind |-> "none", value |-> 0, text |-> <<>>]

\* a KiteClient method calls self._api_call_with_retry(func, ...)
ApiCall ==
    /\ api_pc = "idle"
    /\ \E f \in ApiFuncs : api_func' = f
    /\ attempt' = 1
    /\ api_pc' = "calling"
    /\ UNCHANGED <<api_log, waits, api_out>>

\* line 156: func returns
ApiAttemptReturns ==
    /\ api_pc = "calling"
    /\ \E v \in Values :
          /\ api_log' = Append(api_log, [kind |-> "value", value |-> v, text |-> <<>>])
          /\ api_out' = [kind |-> "value", value |-> v, text |-> <<>>]
    /\ api_pc' = "returned"
    /\ UNCHANGED <<api_func, attempt, waits>>

\* lines 157-169: func raises; a rate-limit error goes on to the sleep,
\* any other exception is raised again
ApiAttemptRaises ==
    /\ api_pc = "calling"
    /\ \E text \in ExcTexts :
          /\ api_log' = Append(api_log, [kind |-> "error", value |-> 0, text |-> text])
          /\ IF IsRateLimit(text)
             THEN api_pc' = "sleeping" /\ api_out' = api_out
             ELSE /\ api_pc' = "raised"
                  /\ api_out' = [kind |-> "error", value |-> 0, text |-> text]
    /\ UNCHANGED <<api_func, attempt, waits>>

\* lines 161-167 and the loop's step: sleep, then the next attempt, or,
\* after the last attempt, the RuntimeError of lines 171-174
ApiBackoff ==
    /\ api_pc = "sleeping"
    /\ waits' = Append(waits, BackoffWait(attempt))
    /\ IF attempt < MAX_API_RETRIES
       THEN /\ attempt' = attempt + 1
            /\ api_pc' = "calling"
            /\ api_out' = api_out
       ELSE /\ attempt' = attempt
            /\ api_pc' = "exhausted"
            /\ api_out' = [kind |-> "error", value |-> 0,
                           text |-> <<"API", "call", api_func, "failed", "after",
                                      "retries">>]
    /\ UNCHANGED <<api_func, api_log>>

RetryIdle ==
    /\ api_pc = "idle"
    /\ api_func = "quote"
    /\ attempt = 0
    /\ api_log = <<>>
    /\ waits = <<>>
    /\ api_out = NoOut

ApiCallWithRetry ==
    \/ ApiCall
    \/ ApiAttemptReturns
    \/ ApiAttemptRaises
    \/ ApiBackoff

(***************************************************************************)
(* Part 4, order entry: executor/order_manager.py (place_spread_order).    *)
(***************************************************************************)
MaxOrders == 2              \* place_spread_order calls in a run

OrderSymbols == {"AAA", "BBB"}
Strategies == {"BULL_PUT", "BEAR_CALL"}

\* _log_failed_trade, lines 232-250: the placeholders of the INSERT and the
\* values bound to them
LOG_FAILED_PLACEHOLDERS == 20
LOG_FAILED_BINDINGS == 21

\* sqlite3 executes a statement only with one value per placeholder
BindingsFit(placeholders, bindings) == placeholders = bindings

VARIABLES
    ord_pc,          \* place_spread_order: "idle", "long", "short",
                     \* "rollback", "log"
    ord_call,        \* arguments of the running call
    long_order_id,   \* 0: None
    short_order_id,
    broker,          \* the requests sent to the broker, in order
    entry_log,       \* the rows place_spread_order has inserted in trade_log
    ord_results      \* per call, what it returned

orderVars == <<ord_pc, ord_call, long_order_id, short_order_id, broker,
               entry_log, ord_results>>

NoCall == [symbol |-> "AAA", strategy |-> "BULL_PUT", is_paper |-> TRUE]
\* number of the running call
CallNo == Len(ord_results) + 1
PAPER_ID == -1

Returns(value) ==
    /\ ord_results' = Append(ord_results, [call |-> ord_call, value |-> value])
    /\ ord_pc' = "idle"

\* lines 28-67: the call starts; paper mode goes straight to the INSERT
PlaceSpreadOrder ==
    /\ ord_pc = "idle"
    /\ Len(ord_results) < MaxOrders
    /\ \E sym \in OrderSymbols, strat \in Strategies, paper \in BOOLEAN :
          /\ ord_call' = [symbol |-> sym, strategy |-> strat, is_paper |-> paper]
          /\ ord_pc' = IF paper THEN "log" ELSE "long"
          /\ long_order_id' = IF paper THEN PAPER_ID ELSE 0
          /\ short_order_id' = IF paper THEN PAPER_ID ELSE 0
    /\ UNCHANGED <<broker, entry_log, ord_results>>

\* lines 74-81, and 93-118 when it raises: the long (hedge) leg; nothing
\* is placed yet, so the handler returns False
PlaceLongLeg ==
    /\ ord_pc = "long"
    /\ \E ok \in BOOLEAN :
          /\ broker' = Append(broker, [call |-> CallNo, op |-> "BUY", leg |-> "long",
                                       id |-> Len(broker) + 1, ok |-> ok])
          /\ IF ok
             THEN /\ long_order_id' = Len(broker) + 1
                  /\ ord_pc' = "short"
                  /\ UNCHANGED ord_results
             ELSE /\ long_order_id' = 0
                  /\ Returns(FALSE)
    /\ UNCHANGED <<ord_call, short_order_id, entry_log>>

\* lines 83-92: the short leg; when it raises the handler goes on to the
\* rollback as long_order_id is set
PlaceShortLeg ==
    /\ ord_pc = "short"
    /\ \E ok \in BOOLEAN :
          /\ broker' = Append(broker, [call |-> CallNo, op |-> "SELL", leg |-> "short",
                                       id |-> Len(broker) + 1, ok |-> ok])
          /\ short_order_id' = IF ok THEN Len(broker) + 1 ELSE 0
          /\ ord_pc' = IF ok THEN "log" ELSE "rollback"
    /\ UNCHANGED <<ord_call, long_order_id, entry_log, ord_results>>

\* _log_failed_trade, lines 216-254: the INSERT of the ERROR row; what
\* sqlite3 raises is caught
_log_failed_trade(log, call, db_ok) ==
    IF db_ok /\ BindingsFit(LOG_FAILED_PLACEHOLDERS, LOG_FAILED_BINDINGS)
    THEN Append(log, [symbol |-> call.symbol, status |-> "ERROR", mode |-> "LIVE",
                      call |-> CallNo])
    ELSE log

\* lines 97-118 with _rollback_long_leg (200-214): the cancel of the long
\* order, and the ERROR row when the cancel failed
RollbackLongLeg ==
    /\ ord_pc = "rollback"
    /\ \E ok \in BOOLEAN, db_ok \in BOOLEAN :
          /\ broker' = Append(broker, [call |-> CallNo, op |-> "CANCEL", leg |-> "long",
                                       id |-> long_order_id, ok |-> ok])
          /\ entry_log' = IF ok THEN entry_log
                          ELSE _log_failed_trade(entry_log, ord_call, db_ok)
    /\ Returns(FALSE)
    /\ UNCHANGED <<ord_call, long_order_id, short_order_id>>

\* lines 120-148: the INSERT of the OPEN row
LogTrade ==
    /\ ord_pc = "log"
    /\ \E db_ok \in BOOLEAN :
          /\ entry_log' = IF db_ok
                          THEN Append(entry_log,
                                      [symbol |-> ord_call.symbol, status |-> "OPEN",
                                       mode |-> IF ord_call.is_paper THEN "PAPER" ELSE "LIVE",
                                       call |-> CallNo])
                          ELSE entry_log
          /\ Returns(db_ok)
    /\ UNCHANGED <<ord_call, long_order_id, short_order_id, broker>>

OrderIdle ==
    /\ ord_pc = "idle"
    /\ ord_call = NoCall
    /\ long_order_id = 0
    /\ short_order_id = 0
    /\ broker = <<>>
    /\ entry_log = <<>>
    /\ ord_results = <<>>

place_spread_order ==
    \/ PlaceSpreadOrder
    \/ PlaceLongLeg
    \/ PlaceShortLeg
    \/ RollbackLongLeg
    \/ LogTrade

(***************************************************************************)
(* Part 5, strike selection: analyst/strike_selector.py.  A date is a day  *)
(* number; day d falls on weekday d % 7 (0 Monday ... 3 Thursday) of the   *)
(* month (d - 1) \div 30.  An instrument is a record of the fields the     *)
(* functions read.                                                         *)
(***************************************************************************)
NumStrikes == 3             \* strikes listed per option type
MaxWidth == 2               \* largest spread_width_strikes passed

Strikes == {10 * k : k \in 1..NumStrikes}
\* wall and spot prices: on, between and outside the strikes
PriceLevels == {10 * k + 5 : k \in 0..NumStrikes} \cup {20}
Trends == {"Bullish", "Bearish", "Sideways"}
NO_DATE == 0
TODAY == 10
\* expiries of the chain: day 24 (the last Thursday of the month of today),
\* day 31 (a Thursday of the next month); day 17 is a Thursday before both
NEAR_EXPIRY == 24
FAR_EXPIRY == 31

Weekday(d) == d % 7
MonthOf(d) == (d - 1) \div 30

Instrument(type, strike, kind, day) ==
    [instrument_type |-> type, strike |-> strike,
     expiry |-> [kind |-> kind, day |-> day]]

\* chains by their strikes: puts and calls of NEAR_EXPIRY in ascending
\* order of strike, then the instruments of other expiries
RECURSIVE LegsOf(_, _, _)
LegsOf(type, strikes, day) ==
    IF strikes = {} THEN <<>>
    ELSE LET k == CHOOSE x \in strikes : \A y \in strikes : x <= y
         IN <<Instrument(type, k, "date", day)>> \o LegsOf(type, strikes \ {k}, day)

\* instruments beside those of NEAR_EXPIRY: none; a put and a call of
\* FAR_EXPIRY at the lowest strike; a put whose expiry is an ISO string; a
\* put without expiry and a call of an expiry already past
ExtraLegs ==
    {<<>>,
     <<Instrument("PE", 10, "datetime", FAR_EXPIRY), Instrument("CE", 10, "date", FAR_EXPIRY)>>,
     <<Instrument("PE", 10, "str", 17)>>,
     <<Instrument("PE", 10, "none", NO_DATE), Instrument("CE", 10, "date", TODAY - 1)>>}

NoInstrument == Instrument("", 0, "none", NO_DATE)
NoRecommendation ==
    [kind |-> "NONE", spread_type |-> "", short_strike |-> 0, long_strike |-> 0,
     short_type |-> "", long_type |-> "", short_instrument |-> NoInstrument,
     long_instrument |-> NoInstrument, expiry |-> NO_DATE]

Abs(x) == IF x < 0 THEN -x ELSE x

\* sorted(..., key=strike, reverse=True): stable
RECURSIVE InsertStrikeDesc(_, _)
InsertStrikeDesc(sorted, c) ==
    IF sorted = <<>> THEN <<c>>
    ELSE IF Head(sorted).strike >= c.strike
         THEN <<Head(sorted)>> \o InsertStrikeDesc(Tail(sorted), c)
         ELSE <<c>> \o sorted
RECURSIVE SortStrikeDesc(_)
SortStrikeDesc(q) ==
    IF q = <<>> THEN <<>>
    ELSE InsertStrikeDesc(SortStrikeDesc(SubSeq(q, 1, Len(q) - 1)), q[Len(q)])

\* sorted(..., key=strike): stable
RECURSIVE InsertStrikeAsc(_, _)
InsertStrikeAsc(sorted, c) ==
    IF sorted = <<>> THEN <<c>>
    ELSE IF Head(sorted).strike <= c.strike
         THEN <<Head(sorted)>> \o InsertStrikeAsc(Tail(sorted), c)
         ELSE <<c>> \o sorted
RECURSIVE SortStrikeAsc(_)
SortStrikeAsc(q) ==
    IF q = <<>> THEN <<>>
    ELSE InsertStrikeAsc(SortStrikeAsc(SubSeq(q, 1, Len(q) - 1)), q[Len(q)])

\* variant: the instrument farthest from the wall
MaxByDistance(q, wall) ==
    LET i == CHOOSE i \in DOMAIN q :
                 \A j \in DOMAIN q : Abs(q[i].strike - wall) >= Abs(q[j].strike - wall)
    IN q[i]

\* min(seq, key=lambda i: abs(i["strike"] - wall)): the first of the least
MinByDistance(q, wall) ==
    LET i == CHOOSE i \in DOMAIN q :
                 /\ \A j \in DOMAIN q : Abs(q[i].strike - wall) <= Abs(q[j].strike - wall)
                 /\ \A j \in 1..(i - 1) : Abs(q[j].strike - wall) > Abs(q[i].strike - wall)
    IN q[i]

\* lines 56-66: the expiries of the chain that are not past; an ISO string
\* is parsed, a datetime gives its date
FutureExpiries(chain, today) ==
    {chain[i].expiry.day : i \in {j \in DOMAIN chain :
                                      /\ chain[j].expiry.kind # "none"
                                      /\ chain[j].expiry.day >= today}}

\* variant: only a Thursday is a monthly expiry
IsLastThursdayOnly(exp, all_expiries) ==
    /\ Weekday(exp) = 3
    /\ ~\E e \in all_expiries : MonthOf(e) = MonthOf(exp) /\ e > exp

\* _is_last_thursday_of_month, lines 95-114
_is_last_thursday_of_month(exp, all_expiries) ==
    /\ Weekday(exp) \in {2, 3}
    /\ ~\E e \in all_expiries : MonthOf(e) = MonthOf(exp) /\ e > exp

SetMin(S) == CHOOSE x \in S : \A y \in S : x <= y

\* find_nearest_monthly_expiry, lines 38-92
find_nearest_monthly_expiry(chain, today) ==
    LET expiries == FutureExpiries(chain, today)
        monthly == {e \in expiries : _is_last_thursday_of_month(e, expiries)}
        far == {e \in expiries : e - today >= 15}
    IN IF expiries = {} THEN NO_DATE
       ELSE IF monthly # {} THEN SetMin(monthly)
       ELSE IF far # {} THEN SetMin(far)
       ELSE SetMin(expiries)

\* _filter_by_expiry, lines 191-205: an ISO string is never equal to a date
_filter_by_expiry(chain, target_expiry) ==
    SelectSeq(chain, LAMBDA inst :
        /\ inst.expiry.kind \in {"date", "datetime"}
        /\ inst.expiry.day = target_expiry)

\* variant: the short put may stand at or above spot
ShortPutOkAnySpot(inst, support_wall, spot) == inst.strike <= support_wall

\* line 232: inst["strike"] <= support_wall and inst["strike"] < spot
ShortPutOk(inst, support_wall, spot) ==
    inst.strike <= support_wall /\ inst.strike < spot

\* line 289: inst["strike"] >= resistance_wall and inst["strike"] > spot
ShortCallOk(inst, resistance_wall, spot) ==
    inst.strike >= resistance_wall /\ inst.strike > spot

Recommendation(spread_type, type, short_inst, long_inst, expiry) ==
    [kind |-> "REC", spread_type |-> spread_type,
     short_strike |-> short_inst.strike, long_strike |-> long_inst.strike,
     short_type |-> type, long_type |-> type,
     short_instrument |-> short_inst, long_instrument |-> long_inst,
     expiry |-> expiry]

\* lines 244-273 and 299-328: the long leg among the strikes beyond the
\* short one, nearest first, and the result
WithLongLeg(spread_type, type, short_inst, beyond, expiry, spread_width) ==
    IF Len(beyond) < spread_width THEN NoRecommendation
    ELSE Recommendation(spread_type, type, short_inst, beyond[spread_width], expiry)

\* _select_bull_put_spread, lines 208-273
_select_bull_put_spread(support_wall, spot, chain, expiry, spread_width) ==
    LET puts == SortStrikeDesc(SelectSeq(chain, LAMBDA i : i.instrument_type = "PE"))
        fit == SelectSeq(puts, LAMBDA i : ShortPutOk(i, support_wall, spot))
        otm_puts == SelectSeq(puts, LAMBDA i : i.strike < spot)
    IN IF puts = <<>> THEN NoRecommendation
       ELSE IF fit = <<>> /\ otm_puts = <<>> THEN NoRecommendation
       ELSE LET short_inst == IF fit # <<>> THEN fit[1]
                              ELSE MinByDistance(otm_puts, support_wall)
                lower_puts == SortStrikeDesc(
                                  SelectSeq(puts, LAMBDA i : i.strike < short_inst.strike))
            IN WithLongLeg("BULL_PUT", "PE", short_inst, lower_puts, expiry, spread_width)

\* _select_bear_call_spread, lines 276-328
_select_bear_call_spread(resistance_wall, spot, chain, expiry, spread_width) ==
    LET calls_ce == SortStrikeAsc(SelectSeq(chain, LAMBDA i : i.instrument_type = "CE"))
        fit == SelectSeq(calls_ce, LAMBDA i : ShortCallOk(i, resistance_wall, spot))
        otm_calls == SelectSeq(calls_ce, LAMBDA i : i.strike > spot)
    IN IF calls_ce = <<>> THEN NoRecommendation
       ELSE IF fit = <<>> /\ otm_calls = <<>> THEN NoRecommendation
       ELSE LET short_inst == IF fit # <<>> THEN fit[1]
                              ELSE MinByDistance(otm_calls, resistance_wall)
                higher_calls == SortStrikeAsc(
                                    SelectSeq(calls_ce, LAMBDA i : i.strike > short_inst.strike))
            IN WithLongLeg("BEAR_CALL", "CE", short_inst, higher_calls, expiry, spread_width)

\* select_strikes, lines 122-188
select_strikes(wall_price, spot, trend, option_chain, target_expiry, spread_width_strikes, today) ==
    LET expiry == IF target_expiry = NO_DATE
                  THEN find_nearest_monthly_expiry(option_chain, today)
                  ELSE target_expiry
        expiry_chain == _filter_by_expiry(option_chain, expiry)
    IN IF expiry = NO_DATE THEN NoRecommendation
       ELSE IF expiry_chain = <<>> THEN NoRecommendation
       ELSE IF trend = "Bullish"
            THEN _select_bull_put_spread(wall_price, spot, expiry_chain, expiry,
                                         spread_width_strikes)
       ELSE IF trend = "Bearish"
            THEN _select_bear_call_spread(wall_price, spot, expiry_chain, expiry,
                                          spread_width_strikes)
       ELSE NoRecommendation

VARIABLES
    sel_pc,     \* "ready": arguments drawn; "returned"
    sel_in,     \* the arguments of select_strikes
    sel_out     \* what select_strikes returned

strikeVars == <<sel_pc, sel_in, sel_out>>

SelectArgs(wall, spot, trend, chain, target, width) ==
    [wall_price |-> wall, spot |-> spot, trend |-> trend, option_chain |-> chain,
     target_expiry |-> target, spread_width_strikes |-> width]

StrikeIdle ==
    /\ sel_pc = "returned"
    /\ sel_in = SelectArgs(5, 5, "Sideways", <<>>, NO_DATE, 1)
    /\ sel_out = NoRecommendation

\* the calls made: any wall and spot, a trend, a chain of puts and calls at
\* NEAR_EXPIRY with instruments of other expiries beside them, an expiry
\* asked for or none, a width
StrikeInputs ==
    /\ sel_pc = "ready"
    /\ sel_out = NoRecommendation
    /\ \E wall \in PriceLevels, spot \in PriceLevels, trend \in Trends,
          puts \in SUBSET Strikes, ces \in SUBSET Strikes, extra \in ExtraLegs,
          target \in {NO_DATE, NEAR_EXPIRY}, width \in 1..MaxWidth :
          sel_in = SelectArgs(wall, spot, trend,
                              LegsOf("PE", puts, NEAR_EXPIRY)
                                  \o LegsOf("CE", ces, NEAR_EXPIRY) \o extra,
                              target, width)

SelectStrikes ==
    /\ sel_pc = "ready"
    /\ sel_out' = select_strikes(sel_in.wall_price, sel_in.spot, sel_in.trend,
                                 sel_in.option_chain, sel_in.target_expiry,
                                 sel_in.spread_width_strikes, TODAY)
    /\ sel_pc' = "returned"
    /\ UNCHANGED sel_in

(***************************************************************************)
(* Part 6, the volume profile: analyst/volume_profile.py.  Prices, bin     *)
(* sizes and volumes are integers, and the volumes drawn divide evenly     *)
(* over the bins a candle spans, so the quotients of the source are exact; *)
(* comparisons with a fraction are made by cross-multiplying.  bins is     *)
(* the dict of the source as the sequence of its items in insertion order. *)
(***************************************************************************)
NumRuns == 2                \* runs of equal candles in a candle list

MIN_CANDLES == 10
VP_MIN_ADV == 500000
VP_VALUE_AREA_PCT == 70
VP_HVN_MULTIPLIER_X10 == 15     \* VP_HVN_MULTIPLIER = 1.5, in tenths

Candle(low, high, volume) == [low |-> low, high |-> high, volume |-> volume]
\* daily candles: a wide busy range, a thin range above, a day without
\* price movement, a day without volume, a busy narrow range, a busy range
\* across a bin edge, a busy range inside the middle bin of the wide one
\* volumes are counted in thousands of shares
VOLUME_UNIT == 1000
CandleKinds ==
    {Candle(100, 110, 1200), Candle(130, 140, 300), Candle(105, 105, 600),
     Candle(112, 118, 0), Candle(120, 121, 600), Candle(104, 106, 600),
     Candle(106, 108, 600)}
RunLengths == {0, 1, MIN_CANDLES \div 2, MIN_CANDLES - 1, MIN_CANDLES}
\* bin_size argument; NO_BIN_SIZE: None, the width is then computed
BinSizes == {5, 10}
NO_BIN_SIZE == 0
SpotPrices == {95, 105, 120, 135, 145}

RECURSIVE Repeat(_, _)
Repeat(c, n) == IF n = 0 THEN <<>> ELSE <<c>> \o Repeat(c, n - 1)

Max(a, b) == IF a >= b THEN a ELSE b

\* math.floor(p / bin_size) * bin_size
FloorBin(p, bin_size) == (p \div bin_size) * bin_size

\* bins[price] += v, on a defaultdict(float)
AddToBin(bins, price, v) ==
    IF \E i \in DOMAIN bins : bins[i].price = price
    THEN LET i == CHOOSE k \in DOMAIN bins : bins[k].price = price
         IN [bins EXCEPT ![i].vol = @ + v]
    ELSE Append(bins, [price |-> price, vol |-> v])

\* lines 141-144: while price <= high_bin + bin_size * 0.01
RECURSIVE SpreadVolume(_, _, _, _, _)
SpreadVolume(bins, price, high_bin, bin_size, vol_per_bin) ==
    IF 100 * price <= 100 * high_bin + bin_size
    THEN SpreadVolume(AddToBin(bins, price, vol_per_bin), price + bin_size,
                      high_bin, bin_size, vol_per_bin)
    ELSE bins

\* lines 126-144: the body of the loop over the candles
AddCandle(bins, candle, bin_size) ==
    IF candle.volume <= 0 \/ candle.high <= candle.low THEN bins
    ELSE LET low_bin == FloorBin(candle.low, bin_size)
             high_bin == FloorBin(candle.high, bin_size)
             num_bins == Max(1, (high_bin - low_bin) \div bin_size + 1)
             vol_per_bin == candle.volume \div num_bins
         IN SpreadVolume(bins, low_bin, high_bin, bin_size, vol_per_bin)

\* lines 123-144: bins after the loop has gone through the candles
RECURSIVE Distribute(_, _)
Distribute(candles, bin_size) ==
    IF candles = <<>> THEN <<>>
    ELSE LET before == Distribute(SubSeq(candles, 1, Len(candles) - 1), bin_size)
         IN IF before = <<>> THEN AddCandle(<<>>, candles[Len(candles)], bin_size)
            ELSE AddCandle(before, candles[Len(candles)], bin_size)

RECURSIVE SumVol(_)
SumVol(bins) == IF bins = <<>> THEN 0 ELSE Head(bins).vol + SumVol(Tail(bins))

RECURSIVE SumVolume(_)
SumVolume(candles) ==
    IF candles = <<>> THEN 0 ELSE Head(candles).volume + SumVolume(Tail(candles))

\* sorted(bins.items()) / sorted(bins.keys())
RECURSIVE InsertByPrice(_, _)
InsertByPrice(sorted, b) ==
    IF sorted = <<>> THEN <<b>>
    ELSE IF Head(sorted).price <= b.price
         THEN <<Head(sorted)>> \o InsertByPrice(Tail(sorted), b)
         ELSE <<b>> \o sorted
RECURSIVE SortByPrice(_)
SortByPrice(q) ==
    IF q = <<>> THEN <<>>
    ELSE InsertByPrice(SortByPrice(SubSeq(q, 1, Len(q) - 1)), q[Len(q)])

\* line 152: max(bins, key=bins.get), the first key of maximum volume
Poc(bins) ==
    bins[CHOOSE i \in DOMAIN bins :
             /\ \A j \in DOMAIN bins : bins[j].vol <= bins[i].vol
             /\ \A j \in 1..(i - 1) : bins[j].vol < bins[i].vol].price

\* variant: the expansion stops at half of the total volume
BelowTargetHalf(accumulated, total_volume) == accumulated * 100 < total_volume * 50

\* lines 181 and 192: accumulated < total_volume * (VP_VALUE_AREA_PCT / 100.0)
BelowTarget(accumulated, total_volume) ==
    accumulated * 100 < total_volume * VP_VALUE_AREA_PCT

\* variant: the lower side is taken on a tie
ExpandsUpStrict(vol_up, vol_down) == vol_up > vol_down

\* line 204: if vol_up >= vol_down
ExpandsUp(vol_up, vol_down) == vol_up >= vol_down

\* lines 192-211: the loop of _compute_value_area over sorted_prices (here
\* the sorted items), from the state it has reached
RECURSIVE ExpandValueArea(_, _, _, _, _, _, _)
ExpandValueArea(sorted, total_volume, accumulated, upper_idx, lower_idx, va_high, va_low) ==
    IF ~BelowTarget(accumulated, total_volume)
    THEN [va_high |-> va_high, va_low |-> va_low, accumulated |-> accumulated]
    ELSE LET vol_up == IF upper_idx <= Len(sorted) THEN sorted[upper_idx].vol ELSE 0
             vol_down == IF lower_idx >= 1 THEN sorted[lower_idx].vol ELSE 0
         IN IF vol_up = 0 /\ vol_down = 0
            THEN [va_high |-> va_high, va_low |-> va_low, accumulated |-> accumulated]
            ELSE IF ExpandsUp(vol_up, vol_down)
            THEN ExpandValueArea(sorted, total_volume, accumulated + vol_up,
                                 upper_idx + 1, lower_idx, sorted[upper_idx].price, va_low)
            ELSE ExpandValueArea(sorted, total_volume, accumulated + vol_down,
                                 upper_idx, lower_idx - 1, va_high, sorted[lower_idx].price)

\* _compute_value_area, lines 168-213 (indices from 1)
_compute_value_area(bins, poc, bin_size, total_volume) ==
    LET sorted == SortByPrice(bins)
        poc_idx == CHOOSE i \in DOMAIN sorted :
                       /\ \A j \in DOMAIN sorted :
                             Abs(sorted[i].price - poc) <= Abs(sorted[j].price - poc)
                       /\ \A j \in 1..(i - 1) :
                             Abs(sorted[j].price - poc) > Abs(sorted[i].price - poc)
    IN ExpandValueArea(sorted, total_volume, sorted[poc_idx].vol,
                       poc_idx + 1, poc_idx - 1, poc, poc)

\* round(x, 0) of x = s / n: to the nearest, halves to the even
RoundDiv(s, n) ==
    LET q == s \div n
        r == s % n
    IN IF 2 * r < n THEN q
       ELSE IF 2 * r > n THEN q + 1
       ELSE IF q % 2 = 0 THEN q ELSE q + 1

NoProfile ==
    [kind |-> "NONE", bins |-> <<>>, poc |-> 0, va_high |-> 0, va_low |-> 0,
     total_volume |-> 0, bin_size |-> 0, adv |-> 0]

\* calculate_volume_profile, lines 66-165; fd_width: what
\* _freedman_diaconis_bin_width gives for the closes
calculate_volume_profile(candles, bin_size_arg, fd_width) ==
    LET volumes == SelectSeq(candles, LAMBDA c : c.volume > 0)
        bin_size == IF bin_size_arg = NO_BIN_SIZE THEN fd_width ELSE bin_size_arg
        bins == Distribute(candles, bin_size)
        total_volume == SumVol(bins)
        poc_price == Poc(bins)
        va == _compute_value_area(bins, poc_price, bin_size, total_volume)
    IN IF Len(candles) < MIN_CANDLES THEN NoProfile
       ELSE IF volumes = <<>> THEN NoProfile
       ELSE IF SumVolume(volumes) * VOLUME_UNIT < VP_MIN_ADV * Len(volumes) THEN NoProfile
       ELSE IF bins = <<>> THEN NoProfile
       ELSE [kind |-> "PROFILE", bins |-> SortByPrice(bins), poc |-> poc_price,
             va_high |-> va.va_high, va_low |-> va.va_low,
             total_volume |-> total_volume, bin_size |-> bin_size,
             adv |-> RoundDiv(SumVolume(volumes) * VOLUME_UNIT, Len(volumes))]

\* variant: any bin of at least the mean volume counts as a node
IsHvnMean(vol, bins) == vol * Len(bins) >= SumVol(bins)

\* lines 247-250: vol >= mean_vol * VP_HVN_MULTIPLIER
IsHvn(vol, bins) == vol * Len(bins) * 10 >= SumVol(bins) * VP_HVN_MULTIPLIER_X10

NO_WALL == 0
\* find_hvn_walls, lines 221-271
find_hvn_walls(profile, spot_price) ==
    LET bins == profile.bins
        all_hvns == {bins[i].price : i \in {j \in DOMAIN bins : IsHvn(bins[j].vol, bins)}}
        support_candidates == {q \in all_hvns : q < spot_price}
        resist_candidates == {q \in all_hvns : q > spot_price}
    IN IF bins = <<>>
       THEN [support_wall |-> NO_WALL, resistance_wall |-> NO_WALL, all_hvns |-> {}]
       ELSE [support_wall |-> IF support_candidates = {} THEN NO_WALL
                              ELSE CHOOSE x \in support_candidates :
                                       \A y \in support_candidates : y <= x,
             resistance_wall |-> IF resist_candidates = {} THEN NO_WALL
                                 ELSE SetMin(resist_candidates),
             all_hvns |-> all_hvns]

VARIABLES
    vp_pc,        \* "ready": arguments drawn; "profiled"; "walled"
    vp_candles,   \* the candles argument
    vp_bin_size,  \* the bin_size argument
    profile,      \* what calculate_volume_profile returned
    spot_price,   \* the spot_price argument of find_hvn_walls
    walls         \* what find_hvn_walls returned

vpVars == <<vp_pc, vp_candles, vp_bin_size, profile, spot_price, walls>>

NoWalls == [support_wall |-> NO_WALL, resistance_wall |-> NO_WALL, all_hvns |-> {}]

VpIdle ==
    /\ vp_pc = "walled"
    /\ vp_candles = <<>>
    /\ vp_bin_size = NO_BIN_SIZE
    /\ profile = NoProfile
    /\ spot_price = 0
    /\ walls = NoWalls

\* candle lists of NumRuns runs of equal candles
RECURSIVE CandleLists(_)
CandleLists(n) ==
    IF n = 0 THEN {<<>>}
    ELSE {Repeat(c, k) \o rest : c \in CandleKinds, k \in RunLengths,
                                 rest \in CandleLists(n - 1)}

VpInputs ==
    /\ vp_pc = "ready"
    /\ vp_candles \in CandleLists(NumRuns)
    /\ vp_bin_size \in BinSizes \cup {NO_BIN_SIZE}
    /\ profile = NoProfile
    /\ spot_price = 0
    /\ walls = NoWalls

CalculateVolumeProfile ==
    /\ vp_pc = "ready"
    /\ \E fd_width \in BinSizes :
          profile' = calculate_volume_profile(vp_candles, vp_bin_size, fd_width)
    /\ vp_pc' = "profiled"
    /\ UNCHANGED <<vp_candles, vp_bin_size, spot_price, walls>>

\* analyst.py calls find_hvn_walls on a profile that is not None
FindHvnWalls ==
    /\ vp_pc = "profiled"
    /\ profile.kind = "PROFILE"
    /\ \E spot \in SpotPrices :
          /\ spot_price' = spot
          /\ walls' = find_hvn_walls(profile, spot)
    /\ vp_pc' = "walled"
    /\ UNCHANGED <<vp_candles, vp_bin_size, profile>>

VolumeProfile ==
    \/ CalculateVolumeProfile
    \/ FindHvnWalls

\* the state of the parts after the scanner
libVars == <<retryVars, orderVars, strikeVars, vpVars>>
LibIdle == RetryIdle /\ OrderIdle /\ StrikeIdle /\ VpIdle

(***************************************************************************)
(* Part 7: spread economics, analyst/strike_selector.py compute_spread_pnl. *)
(* Prices are counted in thousandths of a rupee, so that rounding to two    *)
(* decimals is a step that can lose something.                              *)
(***************************************************************************)
\* premiums as kite.ltp reports them (ticks of 0.05): 0, 0.05, 2.20, 4.50, 6.00
Premiums == {0, 50, 2200, 4500, 6000}
\* distances between two strikes: 5.00 and 50.00
SpreadWidths == {5000, 50000}
LotSizes == {1, 25, 50}
\* float("inf") in the risk_reward field
INF == -1

\* round(x, 2)
Round2(x) == RoundDiv(x, 10) * 10

\* variant: a loss that is never negative
MaxLossFloored(spread_width, net_credit, lot_size) ==
    Max(0, (spread_width - net_credit) * lot_size)

\* line 413
MaxLoss(spread_width, net_credit, lot_size) == (spread_width - net_credit) * lot_size

\* compute_spread_pnl, lines 369-429
compute_spread_pnl(short_premium, long_premium, lot_size, spread_width, sl_pct, target_pct) ==
    LET net_credit == Max(0, short_premium - long_premium)
        max_profit == net_credit * lot_size
        max_loss == MaxLoss(spread_width, net_credit, lot_size)
        risk_reward == IF max_loss > 0 THEN RoundDiv(max_profit * 1000, max_loss) ELSE INF
        \* hundred times the premium levels
        sl_premium_x100 == short_premium * (100 + sl_pct)
        target_premium_x100 == short_premium * (100 - target_pct)
    IN [net_credit |-> Round2(net_credit),
        max_profit |-> Round2(max_profit),
        max_loss |-> Round2(max_loss),
        risk_reward |-> risk_reward,
        sl_premium |-> RoundDiv(sl_premium_x100, 1000) * 10,
        target_premium |-> RoundDiv(Max(0, target_premium_x100), 1000) * 10,
        sl_pct |-> sl_pct,
        target_pct |-> target_pct]

VARIABLES
    pnl_pc,    \* "ready": arguments drawn; "done": the call has returned
    pnl_in,    \* the arguments
    pnl_out    \* the returned dict

pnlVars == <<pnl_pc, pnl_in, pnl_out>>

PnlArgs(short_premium, long_premium, lot_size, spread_width) ==
    [short_premium |-> short_premium, long_premium |-> long_premium,
     lot_size |-> lot_size, spread_width |-> spread_width]

NoPnl ==
    [net_credit |-> 0, max_profit |-> 0, max_loss |-> 0, risk_reward |-> 0,
     sl_premium |-> 0, target_premium |-> 0, sl_pct |-> 0, target_pct |-> 0]

PnlIdle ==
    /\ pnl_pc = "done"
    /\ pnl_in = PnlArgs(0, 0, 1, 0)
    /\ pnl_out = NoPnl

\* analyst.py:177-199: a positive short premium, the lot size of the short
\* instrument, the distance between the two strikes
PnlInputs ==
    /\ pnl_pc = "ready"
    /\ pnl_in \in {PnlArgs(sp, lp, ls, w) : sp \in Premiums \ {0}, lp \in Premiums,
                                           ls \in LotSizes, w \in SpreadWidths}
    /\ pnl_out = NoPnl

ComputeSpreadPnl ==
    /\ pnl_pc = "ready"
    /\ pnl_out' = compute_spread_pnl(pnl_in.short_premium, pnl_in.long_premium,
                                     pnl_in.lot_size, pnl_in.spread_width,
                                     SPREAD_SL_PCT, SPREAD_TARGET_PCT)
    /\ pnl_pc' = "done"
    /\ UNCHANGED pnl_in

(***************************************************************************)
(* Part 8: expiry resolution on its own, analyst/strike_selector.py        *)
(* find_nearest_monthly_expiry, over chains of many expiries.  The         *)
(* calendar is that of Part 5: months of 30 days, day d on weekday d % 7   *)
(* (2 Wednesday, 3 Thursday).                                              *)
(***************************************************************************)
\* expiries a chain may list: a Wednesday already past, a Saturday, a
\* Thursday, the Wednesday and the Thursday of the last week of the month, a
\* Saturday after them, a Tuesday and a Thursday of the next month
ExpiryDays == {9, 12, 17, 23, 24, 26, 36, 45}
\* date.today(): early in the month, on the last Thursday, the day after
Todays == {TODAY, NEAR_EXPIRY, NEAR_EXPIRY + 1}

\* a chain with one put of each expiry, an ISO string for day 17, a datetime
\* for day 45, and a call without expiry at its end
RECURSIVE ChainAt(_)
ChainAt(days) ==
    IF days = {} THEN <<Instrument("CE", 10, "none", NO_DATE)>>
    ELSE LET d == CHOOSE x \in days : \A y \in days : x >= y
             kind == IF d = 17 THEN "str" ELSE IF d = 45 THEN "datetime" ELSE "date"
         IN <<Instrument("PE", 10, kind, d)>> \o ChainAt(days \ {d})

VARIABLES
    exp_pc,      \* "ready": chain and date drawn; "returned"
    exp_chain,   \* the option_chain argument
    exp_today,   \* date.today() during the call
    exp_out      \* the returned expiry, NO_DATE for None

expVars == <<exp_pc, exp_chain, exp_today, exp_out>>

ExpIdle ==
    /\ exp_pc = "returned"
    /\ exp_chain = <<>>
    /\ exp_today = TODAY
    /\ exp_out = NO_DATE

ExpInputs ==
    /\ exp_pc = "ready"
    /\ exp_chain \in {ChainAt(days) : days \in SUBSET ExpiryDays}
    /\ exp_today \in Todays
    /\ exp_out = NO_DATE

FindNearestMonthlyExpiry ==
    /\ exp_pc = "ready"
    /\ exp_out' = find_nearest_monthly_expiry(exp_chain, exp_today)
    /\ exp_pc' = "returned"
    /\ UNCHANGED <<exp_chain, exp_today>>

(***************************************************************************)
(* Part 9: the IV percentile, scanner/iv_scorer.py _calculate_ivp as       *)
(* get_iv_score calls it.  Volatilities are whole percents; a score is     *)
(* counted in hundredths of a percent, the two decimals round() keeps.     *)
(***************************************************************************)
MaxIvpCalls == 2            \* scores asked for over one history

IVP_MIN_DAYS == 30
\* atm_iv readings of iv_history, and the current_iv values asked about
IvLevels == {10, 20, 30}
CurrentIvs == {5, 10, 15, 20, 25, 30, 35}

\* the histories: IVP_MIN_DAYS readings or two more, by the number of
\* readings at each level (the order plays no part in the count)
IvHistories ==
    {Repeat(10, a) \o Repeat(20, b) \o Repeat(30, n - a - b) :
        <<n, a, b>> \in {t \in {IVP_MIN_DAYS, IVP_MIN_DAYS + 2} \X {0, 1, 10, 29} \X {0, 1, 2, 20} :
                            t[2] + t[3] <= t[1]}}

\* variant: readings equal to the current one are counted too
IsLowerOrEqual(iv, current_iv) == iv <= current_iv

\* line 112: iv < current_iv
IsLower(iv, current_iv) == iv < current_iv

\* _calculate_ivp, lines 94-118
_calculate_ivp(iv_history, current_iv) ==
    LET count_lower == Len(SelectSeq(iv_history, LAMBDA iv : IsLower(iv, current_iv)))
        total == Len(iv_history)
    IN IF total = 0 THEN 0
       ELSE RoundDiv(count_lower * 100 * 100, total)

VARIABLES
    iv_history,   \* the readings _fetch_iv_history returns
    ivp_calls     \* the scores computed so far: current_iv and score

ivpVars == <<iv_history, ivp_calls>>

IvpIdle ==
    /\ iv_history = <<>>
    /\ ivp_calls = <<>>

IvpInputs ==
    /\ iv_history \in IvHistories
    /\ ivp_calls = <<>>

\* get_iv_score, lines 209-241: the IVP path
CalculateIvp ==
    /\ Len(ivp_calls) < MaxIvpCalls
    /\ Len(iv_history) >= IVP_MIN_DAYS
    /\ \E current_iv \in CurrentIvs :
          ivp_calls' = Append(ivp_calls,
                              [current_iv |-> current_iv,
                               score |-> _calculate_ivp(iv_history, current_iv)])
    /\ UNCHANGED iv_history

(***************************************************************************)
(* Part 10: re-analysis.  The profile, the walls and the strikes are       *)
(* computed again from the same arguments, on the same or a later day:     *)
(* analyst/volume_profile.py and analyst/strike_selector.py, called as     *)
(* analyst/analyst.py calls them, with target_expiry left out.             *)
(***************************************************************************)
MaxAnalyses == 2            \* computations over the same arguments

\* candles: a busy range alone, and with a thin range above it
RaCandles ==
    {Repeat(Candle(100, 110, 1200), MIN_CANDLES),
     Repeat(Candle(100, 110, 1200), MIN_CANDLES) \o Repeat(Candle(130, 140, 300), MIN_CANDLES)}

\* chains: puts and calls at every strike, for the expiry of this month
\* alone and for that of the next month (day 45, a Thursday) as well
RaChains ==
    {LegsOf("PE", Strikes, NEAR_EXPIRY) \o LegsOf("CE", Strikes, NEAR_EXPIRY),
     LegsOf("PE", Strikes, NEAR_EXPIRY) \o LegsOf("CE", Strikes, NEAR_EXPIRY)
         \o LegsOf("PE", Strikes, 45) \o LegsOf("CE", Strikes, 45)}

RaArgs(candles, bin_size, fd_width, spot_arg, sel) ==
    [candles |-> candles, bin_size |-> bin_size, fd_width |-> fd_width,
     spot_price |-> spot_arg, sel |-> sel]

VARIABLES
    ra_in,     \* the arguments, the same for every computation
    ra_day,    \* date.today()
    ra_runs    \* the results of the computations made so far

raVars == <<ra_in, ra_day, ra_runs>>

RaIdle ==
    /\ ra_in = RaArgs(<<>>, NO_BIN_SIZE, 5, 0, SelectArgs(5, 5, "Sideways", <<>>, NO_DATE, 1))
    /\ ra_day = TODAY
    /\ ra_runs = <<>>

\* fd_width is what _freedman_diaconis_bin_width gives for the closes of the
\* candles: one value for one list of candles
RaInputs ==
    /\ \E candles \in RaCandles, bin_size \in {NO_BIN_SIZE, 5}, fd_width \in BinSizes,
          spot_arg \in {105, 120}, wall \in {15, 25}, spot \in {15, 25},
          trend \in {"Bullish", "Bearish"}, chain \in RaChains :
          ra_in = RaArgs(candles, bin_size, fd_width, spot_arg,
                         SelectArgs(wall, spot, trend, chain, NO_DATE, 1))
    /\ ra_day = TODAY
    /\ ra_runs = <<>>

\* one computation of the three results from ra_in
Analyse ==
    /\ Len(ra_runs) < MaxAnalyses
    /\ LET prof == calculate_volume_profile(ra_in.candles, ra_in.bin_size, ra_in.fd_width)
       IN ra_runs' = Append(ra_runs,
              [profile |-> prof,
               walls |-> find_hvn_walls(prof, ra_in.spot_price),
               strikes |-> select_strikes(ra_in.sel.wall_price, ra_in.sel.spot,
                                          ra_in.sel.trend, ra_in.sel.option_chain,
                                          ra_in.sel.target_expiry,
                                          ra_in.sel.spread_width_strikes, ra_day)])
    /\ UNCHANGED <<ra_in, ra_day>>

\* time passes between two computations
DayPasses ==
    /\ Len(ra_runs) < MaxAnalyses
    /\ \E d \in Todays : d > ra_day /\ ra_day' = d
    /\ UNCHANGED <<ra_in, ra_runs>>

Reanalysis ==
    \/ Analyse
    \/ DayPasses

(***************************************************************************)
(* Part 11: the implied-volatility solver, core/iv_calculator.py           *)
(* implied_volatility.  A volatility is counted in units of 1e-7, one      *)
(* digit below what round(sigma, 6) keeps.  Black-Scholes price and vega   *)
(* are not computed: each pass of the loop draws what they can give, vega  *)
(* below 1e-12 or not, a price within the precision or not, and the value  *)
(* of sigma - diff / v.                                                    *)
(***************************************************************************)
MAX_ITERATIONS == 100
INITIAL_GUESS == 2500000        \* 0.25
SIGMA_RESET == 10000            \* 0.001
SIGMA_MAX == 50000000           \* 5.0
NO_SIGMA == -1                  \* None

\* time_to_expiry_years, in days: the expiry day itself and a week before it
TimesToExpiry == {0, 7}
\* option_price in paise: none, one tick, a rupee
OptionPrices == {0, 5, 100}
\* sigma - diff / v: below zero, zero, small, moderate, at 5.0, above 5.0
NewtonSteps == {-3000000, 0, 29817, 520923, SIGMA_MAX, SIGMA_MAX + 1}

\* round(sigma, 6)
Round6(x) == RoundDiv(x, 10) * 10

\* variant: a sigma that drifted to zero or below ends the search
ResetSigmaKeep(next_sigma) == next_sigma

\* lines 141-142: if sigma <= 0: sigma = 0.001
ResetSigma(next_sigma) == IF next_sigma <= 0 THEN SIGMA_RESET ELSE next_sigma

VARIABLES
    iv_pc,         \* "ready", "iterating", "returned"
    iv_args,       \* time to expiry and option price
    iv_iteration,  \* passes of the loop begun
    sigma,         \* the current iterate
    iv_step,       \* what the last pass computed
    iv_out         \* the returned value, NO_SIGMA for None

ivVars == <<iv_pc, iv_args, iv_iteration, sigma, iv_step, iv_out>>

NoStep == [vega_small |-> FALSE, diff_small |-> FALSE, next_sigma |-> 0]

IvIdle ==
    /\ iv_pc = "returned"
    /\ iv_args = [time_to_expiry |-> 0, option_price |-> 0]
    /\ iv_iteration = 0
    /\ sigma = INITIAL_GUESS
    /\ iv_step = NoStep
    /\ iv_out = NO_SIGMA

IvInputs ==
    /\ iv_pc = "ready"
    /\ iv_args \in [time_to_expiry : TimesToExpiry, option_price : OptionPrices]
    /\ iv_iteration = 0
    /\ sigma = INITIAL_GUESS
    /\ iv_step = NoStep
    /\ iv_out = NO_SIGMA

\* lines 119-122
IvEnter ==
    /\ iv_pc = "ready"
    /\ IF iv_args.time_to_expiry <= 0 \/ iv_args.option_price <= 0
       THEN iv_pc' = "returned"
       ELSE iv_pc' = "iterating"
    /\ UNCHANGED <<iv_args, iv_iteration, sigma, iv_step, iv_out>>

\* lines 124-144: one pass of the loop
IvIterate ==
    /\ iv_pc = "iterating"
    /\ iv_iteration < MAX_ITERATIONS
    /\ iv_iteration' = iv_iteration + 1
    /\ \E vega_small \in BOOLEAN, diff_small \in BOOLEAN, next_sigma \in NewtonSteps :
          /\ iv_step' = [vega_small |-> vega_small, diff_small |-> diff_small,
                         next_sigma |-> next_sigma]
          /\ IF vega_small
             THEN iv_pc' = "returned" /\ iv_out' = NO_SIGMA /\ UNCHANGED sigma
             ELSE IF diff_small
             THEN iv_pc' = "returned" /\ iv_out' = Round6(sigma) /\ UNCHANGED sigma
             ELSE IF ResetSigma(next_sigma) > SIGMA_MAX
             THEN iv_pc' = "returned" /\ iv_out' = NO_SIGMA /\ sigma' = next_sigma
             ELSE iv_pc' = "iterating" /\ sigma' = ResetSigma(next_sigma)
                                       /\ UNCHANGED iv_out
    /\ UNCHANGED iv_args

\* line 146: the loop has run max_iterations times
IvExhausted ==
    /\ iv_pc = "iterating"
    /\ iv_iteration = MAX_ITERATIONS
    /\ iv_pc' = "returned"
    /\ iv_out' = NO_SIGMA
    /\ UNCHANGED <<iv_args, iv_iteration, sigma, iv_step>>

implied_volatility ==
    \/ IvEnter
    \/ IvIterate
    \/ IvExhausted

\* the state of the computations beside the pipeline
(***************************************************************************)
(* Part 12: the executor, executor/executor.py (execute_trades) with the   *)
(* outcomes of executor/order_manager.py place_spread_order and the close  *)
(* of position_watchdog/exits.py between runs.  trade_log is the number of *)
(* its rows per symbol and status, which is all the two queries of the     *)
(* executor read; the orders sent to the broker are counted per symbol.    *)
(* MAX_OPEN_TRADES and                                                     *)
(* PAPER_TRADE_MODE are read from config, which does not set them in this  *)
(* tree: both are drawn when the process starts.                           *)
(***************************************************************************)
MaxExecRuns == 2            \* execute_trades runs

ExSymbols == {"AAA", "BBB"}
\* config.MAX_OPEN_TRADES
OpenTradeCaps == {1, 2}

EmptyLog == [s \in ExSymbols |-> [OPEN |-> 0, CLOSED |-> 0, ERROR |-> 0]]

\* INSERT INTO trade_log of a row of the symbol with the status
InsertRow(log, symbol, status) == [log EXCEPT ![symbol][status] = @ + 1]

\* the trade logs a first run can find: at most one OPEN row per symbol
ExLogs ==
    { EmptyLog,
      InsertRow(EmptyLog, "AAA", "OPEN"),
      InsertRow(InsertRow(EmptyLog, "AAA", "CLOSED"), "BBB", "OPEN"),
      InsertRow(InsertRow(EmptyLog, "AAA", "ERROR"), "BBB", "CLOSED") }

\* the recommendation lists: rec["symbol"] of every entry
RecLengths == 0..2
RecLists == UNION {[1..n -> ExSymbols] : n \in RecLengths}

\* variant: duplicate only from the second OPEN row of the symbol
IsDuplicateFromSecond(log, symbol) == log[symbol].OPEN > 1

\* lines 153-161: SELECT count(*) ... WHERE symbol = ? AND status = 'OPEN'
_is_duplicate_trade(log, symbol) == log[symbol].OPEN > 0

\* lines 163-170: SELECT count(*) FROM trade_log WHERE status = 'OPEN'
RECURSIVE OpenRowsIn(_, _)
OpenRowsIn(log, symbols) ==
    IF symbols = {} THEN 0
    ELSE LET s == CHOOSE x \in symbols : TRUE
         IN log[s].OPEN + OpenRowsIn(log, symbols \ {s})

_get_open_trade_count(log) == OpenRowsIn(log, ExSymbols)

\* what a place_spread_order call can come to (order_manager.py 62-147):
\* orders sent to the broker, the row inserted, the value returned.  PAPER:
\* the INSERT commits or fails.  LIVE: the long leg fails; the short leg
\* fails and the long order is cancelled, or is not and the ERROR row is
\* logged, or that insert fails too; both legs are placed and the INSERT
\* commits or fails.
PlaceOutcome(orders, row, success) == [orders |-> orders, row |-> row, success |-> success]
PlaceOutcomes(is_paper) ==
    IF is_paper
    THEN {PlaceOutcome(0, "OPEN", TRUE), PlaceOutcome(0, "NONE", FALSE)}
    ELSE {PlaceOutcome(0, "NONE", FALSE), PlaceOutcome(1, "NONE", FALSE),
          PlaceOutcome(1, "ERROR", FALSE), PlaceOutcome(2, "OPEN", TRUE),
          PlaceOutcome(2, "NONE", FALSE)}

VARIABLES
    ex_pc,        \* "idle", "loop" (in the for of execute_trades), "returned",
                  \* "raised" (an exception left execute_trades)
    ex_log,       \* trade_log: per symbol and status, the number of rows
    ex_orders,    \* per symbol: the orders sent to the broker
    ex_cap,       \* config.MAX_OPEN_TRADES
    ex_paper,     \* config.PAPER_TRADE_MODE
    ex_recs,      \* the recommendations of the running call
    ex_i,         \* the recommendation the loop is at
    executed_count,
    ex_last,      \* what the loop did with the recommendation it handled last
    ex_runs       \* calls of execute_trades so far

execVars == <<ex_pc, ex_log, ex_orders, ex_cap, ex_paper, ex_recs, ex_i,
              executed_count, ex_last, ex_runs>>

NoRec == [symbol |-> "AAA", kind |-> "NONE", orders |-> 0, row |-> "NONE"]

ExecIdle ==
    /\ ex_pc = "idle"
    /\ ex_log = EmptyLog
    /\ ex_orders = [s \in ExSymbols |-> 0]
    /\ ex_cap = 1
    /\ ex_paper = TRUE
    /\ ex_recs = <<>>
    /\ ex_i = 0
    /\ executed_count = 0
    /\ ex_last = NoRec
    /\ ex_runs = 0

ExecInputs ==
    /\ ex_pc = "idle"
    /\ ex_log \in ExLogs
    /\ ex_orders = [s \in ExSymbols |-> 0]
    /\ ex_cap \in OpenTradeCaps
    /\ ex_paper \in BOOLEAN
    /\ ex_recs = <<>>
    /\ ex_i = 0
    /\ executed_count = 0
    /\ ex_last = NoRec
    /\ ex_runs = 0

\* lines 29-57: no recommendations, the Nifty kill switch or the cap of open
\* trades end the call with 0; else the loop starts
ExecuteTradesEnter ==
    /\ ex_pc = "idle"
    /\ ex_runs < MaxExecRuns
    /\ ex_runs' = ex_runs + 1
    /\ \E recommendations \in RecLists, nifty_ok \in BOOLEAN :
          /\ ex_recs' = recommendations
          /\ IF \/ recommendations = <<>>
                \/ ~nifty_ok
                \/ _get_open_trade_count(ex_log) >= ex_cap
             THEN ex_pc' = "returned" /\ ex_i' = 0
             ELSE ex_pc' = "loop" /\ ex_i' = 1
    /\ executed_count' = 0
    /\ ex_last' = NoRec
    /\ UNCHANGED <<ex_log, ex_orders, ex_cap, ex_paper>>

\* the loop goes to the next recommendation, or ends after the last one or
\* at the break of lines 145-147
ExecAdvance(stop) ==
    /\ ex_i' = ex_i + 1
    /\ ex_pc' = IF stop \/ ex_i = Len(ex_recs) THEN "returned" ELSE "loop"

\* lines 59-66: the duplicate check of one recommendation finds an OPEN row
\* (continue), or its query raises and the exception leaves execute_trades
ExecuteDuplicate ==
    /\ ex_pc = "loop"
    /\ LET symbol == ex_recs[ex_i]
       IN \/ /\ _is_duplicate_trade(ex_log, symbol)
             /\ ex_last' = [NoRec EXCEPT !.symbol = symbol, !.kind = "DUPLICATE"]
             /\ ExecAdvance(FALSE)
          \/ /\ ex_last' = [NoRec EXCEPT !.symbol = symbol, !.kind = "RAISED"]
             /\ ex_pc' = "raised"
             /\ ex_i' = ex_i
    /\ UNCHANGED <<ex_log, ex_orders, ex_cap, ex_paper, ex_recs, executed_count, ex_runs>>

\* lines 68-147: no OPEN row of the symbol: the quote, circuit, bid-ask and
\* margin checks pass or one of them skips the recommendation; then
\* place_spread_order, the count and the check of the cap
ExecuteRec ==
    /\ ex_pc = "loop"
    /\ LET symbol == ex_recs[ex_i]
       IN /\ ~_is_duplicate_trade(ex_log, symbol)
          /\ \E checks_ok \in BOOLEAN :
                IF ~checks_ok
                THEN /\ ex_last' = [NoRec EXCEPT !.symbol = symbol, !.kind = "SKIPPED"]
                     /\ ExecAdvance(FALSE)
                     /\ UNCHANGED <<ex_log, ex_orders, executed_count>>
                ELSE \E o \in PlaceOutcomes(ex_paper) :
                     LET log == IF o.row = "NONE" THEN ex_log
                                ELSE InsertRow(ex_log, symbol, o.row)
                     IN /\ ex_log' = log
                        /\ ex_orders' = [ex_orders EXCEPT ![symbol] = @ + o.orders]
                        /\ executed_count' = executed_count + (IF o.success THEN 1 ELSE 0)
                        /\ ex_last' = [symbol |-> symbol, kind |-> "PLACED",
                                       orders |-> o.orders, row |-> o.row]
                        /\ ExecAdvance(o.success /\ _get_open_trade_count(log) >= ex_cap)
    /\ UNCHANGED <<ex_cap, ex_paper, ex_recs, ex_runs>>

\* line 149, or the exception: the call is over
ExecuteTradesReturn ==
    /\ ex_pc \in {"returned", "raised"}
    /\ ex_pc' = "idle"
    /\ ex_recs' = <<>>
    /\ ex_i' = 0
    /\ executed_count' = 0
    /\ ex_last' = NoRec
    /\ UNCHANGED <<ex_log, ex_orders, ex_cap, ex_paper, ex_runs>>

\* position_watchdog/exits.py 106-126, between two runs: the watchdog sets
\* an OPEN row to CLOSED
WatchdogCloses ==
    /\ ex_pc = "idle"
    /\ ex_runs < MaxExecRuns
    /\ \E symbol \in ExSymbols :
          /\ ex_log[symbol].OPEN > 0
          /\ ex_log' = [ex_log EXCEPT ![symbol].OPEN = @ - 1,
                                      ![symbol].CLOSED = @ + 1]
    /\ UNCHANGED <<ex_pc, ex_orders, ex_cap, ex_paper, ex_recs, ex_i,
                   executed_count, ex_last, ex_runs>>

execute_trades ==
    \/ ExecuteTradesEnter
    \/ ExecuteDuplicate
    \/ ExecuteRec
    \/ ExecuteTradesReturn
    \/ WatchdogCloses

calcVars == <<pnlVars, expVars, ivpVars, raVars, ivVars, execVars>>
CalcIdle == PnlIdle /\ ExpIdle /\ IvpIdle /\ RaIdle /\ IvIdle /\ ExecIdle

(***************************************************************************)
(* Specifications.                                                         *)
(***************************************************************************)
vars == <<wdVars, scanVars, libVars, calcVars>>

Init == WdInit /\ ScanInit /\ LibIdle /\ CalcIdle

\* watchdog_job.py: one process, one cycle after the other
Next ==
    \/ RunWatchdog(1) /\ UNCHANGED <<scanVars, libVars, calcVars>>
    \/ Tick /\ UNCHANGED <<scanVars, libVars, calcVars>>

Spec == Init /\ [][Next]_vars

\* two hosts run watchdog cycles side by side on two open paper trades
ConcInit ==
    /\ WdInit
    /\ ScanInit
    /\ LibIdle
    /\ CalcIdle
    /\ trade_log[1] = NewRow("OPEN", "PAPER", 1)
    /\ trade_log[2] \in {NewRow("OPEN", "PAPER", 1), NewRow("OPEN", "PAPER", BAD_EXPIRY)}

ConcNext ==
    \/ \E p \in Procs : RunWatchdog(p) /\ UNCHANGED <<scanVars, libVars, calcVars>>
    \/ Tick /\ UNCHANGED <<scanVars, libVars, calcVars>>

ConcSpec == ConcInit /\ [][ConcNext]_vars

\* the trade log of the specifications in which the watchdog does not run
WdIdle ==
    /\ WdInit
    /\ trade_log = [t \in Trades |-> NewRow("ERROR", "LIVE", 1)]

\* one run of run_scan; the trade log plays no part in it
ScanSpecInit ==
    /\ WdIdle
    /\ ScanInit
    /\ LibIdle
    /\ CalcIdle

ScanNext == RunScan /\ UNCHANGED <<wdVars, libVars, calcVars>>

ScanSpec == ScanSpecInit /\ [][ScanNext]_vars

\* calls through _api_call_with_retry; the threads' scheduler lets a call
\* that can take a step take it
RetryInit ==
    /\ WdIdle
    /\ ScanInit
    /\ LibIdle
    /\ CalcIdle

RetryNext == ApiCallWithRetry /\ UNCHANGED <<wdVars, scanVars, orderVars, strikeVars, vpVars, calcVars>>

RetrySpec == RetryInit /\ [][RetryNext]_vars /\ WF_vars(RetryNext)

\* MaxOrders calls of place_spread_order, one after the other
OrderInit ==
    /\ WdIdle
    /\ ScanInit
    /\ LibIdle
    /\ CalcIdle

OrderNext == place_spread_order /\ UNCHANGED <<wdVars, scanVars, retryVars, strikeVars, vpVars, calcVars>>

OrderSpec == OrderInit /\ [][OrderNext]_vars

\* calls of select_strikes
StrikeInit ==
    /\ WdIdle
    /\ ScanInit
    /\ RetryIdle
    /\ OrderIdle
    /\ VpIdle
    /\ CalcIdle
    /\ StrikeInputs

StrikeNext == SelectStrikes /\ UNCHANGED <<wdVars, scanVars, retryVars, orderVars, vpVars, calcVars>>

StrikeSpec == StrikeInit /\ [][StrikeNext]_vars

\* calls of calculate_volume_profile, each followed by find_hvn_walls
VpInit ==
    /\ WdIdle
    /\ ScanInit
    /\ RetryIdle
    /\ OrderIdle
    /\ StrikeIdle
    /\ CalcIdle
    /\ VpInputs

VpNext == VolumeProfile /\ UNCHANGED <<wdVars, scanVars, retryVars, orderVars, strikeVars, calcVars>>

VpSpec == VpInit /\ [][VpNext]_vars

\* calls of compute_spread_pnl
PnlInit ==
    /\ WdIdle
    /\ ScanInit
    /\ LibIdle
    /\ ExpIdle
    /\ IvpIdle
    /\ RaIdle
    /\ IvIdle
    /\ ExecIdle
    /\ PnlInputs

PnlNext == ComputeSpreadPnl /\ UNCHANGED <<wdVars, scanVars, libVars, expVars, ivpVars, raVars, ivVars, execVars>>

PnlSpec == PnlInit /\ [][PnlNext]_vars

\* calls of find_nearest_monthly_expiry
ExpInit ==
    /\ WdIdle
    /\ ScanInit
    /\ LibIdle
    /\ PnlIdle
    /\ IvpIdle
    /\ RaIdle
    /\ IvIdle
    /\ ExecIdle
    /\ ExpInputs

ExpNext == FindNearestMonthlyExpiry /\ UNCHANGED <<wdVars, scanVars, libVars, pnlVars, ivpVars, raVars, ivVars, execVars>>

ExpSpec == ExpInit /\ [][ExpNext]_vars

\* IVP scores computed over one history
IvpInit ==
    /\ WdIdle
    /\ ScanInit
    /\ LibIdle
    /\ PnlIdle
    /\ ExpIdle
    /\ RaIdle
    /\ IvIdle
    /\ ExecIdle
    /\ IvpInputs

IvpNext == CalculateIvp /\ UNCHANGED <<wdVars, scanVars, libVars, pnlVars, expVars, raVars, ivVars, execVars>>

IvpSpec == IvpInit /\ [][IvpNext]_vars

\* MaxAnalyses computations from the same arguments as the days pass
RaInit ==
    /\ WdIdle
    /\ ScanInit
    /\ LibIdle
    /\ PnlIdle
    /\ ExpIdle
    /\ IvpIdle
    /\ IvIdle
    /\ ExecIdle
    /\ RaInputs

RaNext == Reanalysis /\ UNCHANGED <<wdVars, scanVars, libVars, pnlVars, expVars, ivpVars, ivVars, execVars>>

RaSpec == RaInit /\ [][RaNext]_vars

\* one call of implied_volatility; a call that can take a step takes it
IvInit ==
    /\ WdIdle
    /\ ScanInit
    /\ LibIdle
    /\ PnlIdle
    /\ ExpIdle
    /\ IvpIdle
    /\ RaIdle
    /\ ExecIdle
    /\ IvInputs

IvNext == implied_volatility /\ UNCHANGED <<wdVars, scanVars, libVars, pnlVars, expVars, ivpVars, raVars, execVars>>

IvSpec == IvInit /\ [][IvNext]_vars /\ WF_vars(IvNext)

\* runs of execute_trades, with the watchdog closing trades between them
ExecInit ==
    /\ WdIdle
    /\ ScanInit
    /\ LibIdle
    /\ PnlIdle
    /\ ExpIdle
    /\ IvpIdle
    /\ RaIdle
    /\ IvIdle
    /\ ExecInputs

ExecNext == execute_trades /\ UNCHANGED <<wdVars, scanVars, libVars, pnlVars, expVars, ivpVars, raVars, ivVars>>

ExecSpec == ExecInit /\ [][ExecNext]_vars

(***************************************************************************)
(* Properties of the watchdog.                                             *)
(***************************************************************************)

\* C1: for a trade the cycle has read both leg prices of, the exit reason
\* is EXPIRY whenever today is the trade's expiry date and the time of day
\* has reached the cutoff, also when the TARGET or the SL condition holds,
\* and EXPIRY is given in no other case; its row is then CLOSED with reason
\* EXPIRY (as soon as the close's UPDATE has committed); no trade gets more
\* than one close_trade call in a cycle.
C1_ExpiryFirst ==
    \A p \in Procs :
        /\ last[p].kind = "PRICED" =>
              LET row == trade_log[last[p].tid]
                  atCutoff == row.expiry = now[p].day
                              /\ now[p].tod >= EXPIRY_SQUARE_OFF_TIME
              IN /\ atCutoff <=> last[p].reason = "EXPIRY"
                 /\ (atCutoff /\ last[p].db_ok) =>
                        row.status = "CLOSED" /\ row.exit_reason = "EXPIRY"
        /\ \A i, j \in DOMAIN calls[p] : calls[p][i][1] = calls[p][j][1] => i = j

\* C1 witness: at the expiry cutoff with the debit (9) under the target
\* debit (10), the trade is closed with reason EXPIRY.
C1_Witness ==
    /\ last[1].kind = "PRICED"
    /\ last[1].s_ltp - last[1].l_ltp = 9
    /\ trade_log[last[1].tid].expiry = now[1].day
    /\ now[1].tod = EXPIRY_SQUARE_OFF_TIME
    /\ trade_log[last[1].tid].status = "CLOSED"
    /\ trade_log[last[1].tid].exit_reason = "EXPIRY"

\* C2: for a trade the cycle has read both leg prices of and that is not at
\* its expiry cutoff, the exit reason is TARGET iff debit <= credit * (1 -
\* target_pct/100), else SL iff debit >= credit * (1 + sl_pct/100), else
\* none; the row is CLOSED with that reason when there is one (and the
\* UPDATE committed) and stays OPEN otherwise.  With credit 20: debit 9
\* gives TARGET, debit 45 gives SL, debit 15 leaves the trade OPEN.
C2_TargetThenStopLoss ==
    \A p \in Procs :
        last[p].kind = "PRICED" =>
            LET row == trade_log[last[p].tid]
                debit == last[p].s_ltp - last[p].l_ltp
                atCutoff == row.expiry = now[p].day
                            /\ now[p].tod >= EXPIRY_SQUARE_OFF_TIME
                target == debit * 100 <= row.net_credit * (100 - SPREAD_TARGET_PCT)
                stop == debit * 100 >= row.net_credit * (100 + SPREAD_SL_PCT)
            IN ~atCutoff =>
                /\ last[p].reason = "TARGET" <=> target
                /\ last[p].reason = "SL" <=> (~target /\ stop)
                /\ last[p].reason = NULL_REASON <=> (~target /\ ~stop)
                /\ row.status = "CLOSED" <=> (last[p].reason # NULL_REASON /\ last[p].db_ok)
                /\ row.status = "CLOSED" => row.exit_reason = last[p].reason
                /\ row.status # "CLOSED" => row.status = "OPEN"
                /\ (row.net_credit = 20 /\ debit = 9) => last[p].reason = "TARGET"
                /\ (row.net_credit = 20 /\ debit = 45) => last[p].reason = "SL"
                /\ (row.net_credit = 20 /\ debit = 15) => row.status = "OPEN"

\* C2 witness: in one cycle, away from the expiry cutoff, a first trade was
\* closed with TARGET and the next one, at debit 45, with SL.
C2_Witness ==
    /\ calls[1] = <<<<1, "TARGET">>, <<2, "SL">>>>
    /\ last[1].kind = "PRICED" /\ last[1].tid = 2
    /\ last[1].s_ltp - last[1].l_ltp = 45
    /\ trade_log[1].status = "CLOSED" /\ trade_log[1].exit_reason = "TARGET"
    /\ trade_log[2].status = "CLOSED" /\ trade_log[2].exit_reason = "SL"

\* C3: every CLOSED row has pnl = (net_credit - (exit_short_pr -
\* exit_long_pr)) * lot_size, and the exit prices a close stores are the
\* leg prices the cycle took its exit decision on.
C3_PnlOfClose ==
    /\ \A t \in Trades :
          trade_log[t].status = "CLOSED" =>
              trade_log[t].pnl =
                  (trade_log[t].net_credit
                     - (trade_log[t].exit_short_pr - trade_log[t].exit_long_pr))
                  * trade_log[t].lot_size
    /\ \A p \in Procs :
          (last[p].kind = "PRICED" /\ last[p].reason # NULL_REASON /\ last[p].db_ok) =>
              /\ trade_log[last[p].tid].status = "CLOSED"
              /\ trade_log[last[p].tid].exit_short_pr = last[p].s_ltp
              /\ trade_log[last[p].tid].exit_long_pr = last[p].l_ltp

\* C3 witness: the stop-loss close of the tests: short 50, long 5, credit
\* 20, lot 50, pnl -1250.
C3_Witness ==
    \E t \in Trades :
        /\ trade_log[t].status = "CLOSED"
        /\ trade_log[t].exit_reason = "SL"
        /\ trade_log[t].exit_short_pr = 50 /\ trade_log[t].exit_long_pr = 5
        /\ trade_log[t].pnl = -1250
        /\ last[1].tid = t /\ last[1].s_ltp = 50 /\ last[1].l_ltp = 5

\* C4: a trade is closed once: a row that is CLOSED is never written again
\* (its exit_reason, exit prices, exit_time and pnl stay), under any
\* interleaving of the cycles of two hosts.
C4_ClosedOnce ==
    [][\A t \in Trades :
          trade_log[t].status = "CLOSED" => trade_log'[t] = trade_log[t]]_vars

\* C5: a cycle that finds a leg's quote missing skips the trade: the step
\* leaves the whole trade_log as it is (the trade stays OPEN, no exit reason,
\* no pnl), and every trade skipped so stays OPEN and is among the open
\* trades the next cycle reads.
C5_MissingQuoteSkips ==
    /\ [][\A p \in Procs :
            (pc[p] = "eval" /\ idx'[p] = idx[p] + 1 /\ last'[p].kind = "MISSING") =>
                /\ trade_log' = trade_log
                /\ trade_log[last'[p].tid].status = "OPEN"
                /\ trade_log[last'[p].tid].exit_reason = NULL_REASON]_vars
    /\ [](\A t \in missed :
            /\ trade_log[t].status = "OPEN"
            /\ \A p \in Procs :
                  pc[p] \in {"fetch", "eval"} =>
                      \E i \in DOMAIN open_trades[p] : open_trades[p][i] = t)

\* C5 witness: a trade skipped for a missing quote in an earlier cycle has
\* now been priced and closed.
C5_Witness ==
    /\ last[1].kind = "PRICED"
    /\ last[1].retry
    /\ trade_log[last[1].tid].status = "CLOSED"

\* C6: a failure on one open trade never keeps another open trade of the
\* cycle from being evaluated: when a cycle that has fetched its quotes
\* ends, its second loop has passed every open trade it read, except for
\* the one trade whose evaluation failed.
C6_FailureIsolated ==
    \A p \in Procs :
        (pc[p] \in {"done", "raised"} /\ now[p] # NoNow) =>
            \A i \in DOMAIN open_trades[p] :
                i <= idx[p] \/ (pc[p] = "raised" /\ i = idx[p] + 1)

C29_LiveClosedOnlyAfterExit ==
    [][\A p \in Procs :
          (/\ pc[p] = "eval"
           /\ idx'[p] = idx[p] + 1
           /\ last'[p].kind = "PRICED"
           /\ last'[p].reason # NULL_REASON
           /\ trade_log[last'[p].tid].mode = "LIVE") =>
              /\ (trade_log'[last'[p].tid].status = "CLOSED") => (last'[p].placed = 2)
              /\ (last'[p].placed < 2) =>
                    (trade_log'[last'[p].tid] = trade_log[last'[p].tid])]_vars

(***************************************************************************)
(* Properties of the scanner.                                              *)
(***************************************************************************)

\* C8: no symbol's failure aborts run_scan: while the pool runs the scan
\* can always go on, it ends by returning only, and when it has returned
\* every symbol was processed and collected, every symbol that qualifies
\* stands in the sorted list and the returned list is that list's head.
C8_ScanNeverAborted ==
    /\ scan_pc \in {"idle", "pool", "returned", "invalid_token"}
    /\ scan_pc = "pool" => ENABLED RunScan
    /\ scan_pc = "returned" =>
          /\ \A s \in Stocks :
                /\ task[s].state = "collected"
                /\ task[s].outcome.kind \in {"RESULT", "NONE", "RAISED"}
                /\ (task[s].outcome.kind = "RESULT" /\ task[s].outcome.score >= min_score) =>
                       \E i \in DOMAIN scored :
                           scored[i].symbol = s /\ scored[i].score = task[s].outcome.score
          /\ Len(top) = (IF max_candidates < Len(scored) THEN max_candidates ELSE Len(scored))
          /\ \A i \in DOMAIN top : top[i] = scored[i]

\* C8 witness: one task raised, one returned no result, and a third,
\* qualified symbol is in the returned list.
C8_Witness ==
    /\ scan_pc = "returned"
    /\ \E a, b, c \in Stocks :
          /\ task[a].outcome.kind = "RAISED"
          /\ task[b].outcome.kind = "NONE"
          /\ task[c].outcome.kind = "RESULT"
          /\ \E i \in DOMAIN top : top[i].symbol = c

\* C9: the returned list holds only symbols whose score is >= min_score
\* (each once, with its own score), is ordered by score non-increasing, has
\* at most max_candidates entries, and no qualified symbol left out has a
\* higher score than one returned, in whatever order the tasks completed.
C9_TopRanked ==
    scan_pc = "returned" =>
        /\ \A i \in DOMAIN top :
              /\ top[i].symbol \in Stocks
              /\ task[top[i].symbol].outcome.kind = "RESULT"
              /\ top[i].has_score
              /\ top[i].score = task[top[i].symbol].outcome.score
              /\ top[i].score >= min_score
        /\ \A i, j \in DOMAIN top :
              /\ i < j => top[i].score >= top[j].score
              /\ top[i].symbol = top[j].symbol => i = j
        /\ Len(top) <= max_candidates
        /\ \A s \in Stocks :
              (/\ task[s].outcome.kind = "RESULT"
               /\ task[s].outcome.score >= min_score
               /\ \A i \in DOMAIN top : top[i].symbol # s) =>
                  \A i \in DOMAIN top : top[i].score >= task[s].outcome.score

\* C9 witness: three symbols qualified, the futures completed with a lower
\* score ahead of a higher one, two are returned, the higher score first.
C9_Witness ==
    /\ scan_pc = "returned"
    /\ max_candidates = 2 /\ Len(top) = 2 /\ Len(scored) = 3
    /\ top[1].score > top[2].score
    /\ \E i, j \in DOMAIN all_results :
          /\ i < j
          /\ all_results[i].qualified /\ all_results[j].qualified
          /\ all_results[i].score < all_results[j].score

\* C10 (as claimed): a symbol whose task returned no result or raised is in
\* neither the returned list nor the audit results (all_results, and the
\* scan_history records written from it).
C10_FailedExcluded ==
    scan_pc = "returned" =>
        \A s \in Stocks :
            task[s].outcome.kind \in {"NONE", "RAISED"} =>
                /\ \A i \in DOMAIN top : top[i].symbol # s
                /\ \A i \in DOMAIN all_results : all_results[i].symbol # s
                /\ \A i \in DOMAIN scan_history : scan_history[i].symbol # s

\* C10 (amended): a symbol whose task returned no result or raised is in
\* neither the qualified list nor the returned list, and the audit results
\* hold it exactly once, as a record without score and with qualified
\* false; scan_history, when written, holds the same records.
C10_FailedKeptInAudit ==
    scan_pc = "returned" =>
        /\ \A s \in Stocks :
              task[s].outcome.kind \in {"NONE", "RAISED"} =>
                  /\ \A i \in DOMAIN top : top[i].symbol # s
                  /\ \A i \in DOMAIN scored : scored[i].symbol # s
                  /\ Cardinality({i \in DOMAIN all_results : all_results[i].symbol = s}) = 1
                  /\ \A i \in DOMAIN all_results :
                        all_results[i].symbol = s =>
                            ~all_results[i].has_score /\ ~all_results[i].qualified
        /\ scan_history \in {<<>>, all_results}

\* C10 witness: scan_history was written and holds a failed symbol's record
\* without score, while another symbol was returned.
C10_Witness ==
    /\ scan_pc = "returned"
    /\ Len(top) > 0
    /\ \E s \in Stocks :
          /\ task[s].outcome.kind = "RAISED"
          /\ \E i \in DOMAIN scan_history :
                scan_history[i].symbol = s /\ ~scan_history[i].has_score

\* C11: every symbol whose task ended with a result, qualified or not, has
\* exactly one record in the audit results (all_results) when the scan has
\* returned, carrying its score; no record of the audit results, at any
\* time, is of an index underlying; and every record of the qualified list
\* and of the returned list is a record of the audit results.
C11_AuditComplete ==
    /\ \A i \in DOMAIN all_results :
          /\ all_results[i].symbol \notin IndexSymbols
          /\ all_results[i].symbol \in Stocks
    /\ \A i \in DOMAIN scored : \E j \in DOMAIN all_results : all_results[j] = scored[i]
    /\ \A i \in DOMAIN top : \E j \in DOMAIN all_results : all_results[j] = top[i]
    /\ \A i, j \in DOMAIN all_results :
          all_results[i].symbol = all_results[j].symbol => i = j
    /\ scan_pc = "returned" =>
          \A s \in Stocks :
              task[s].outcome.kind = "RESULT" =>
                  /\ Cardinality({i \in DOMAIN all_results : all_results[i].symbol = s}) = 1
                  /\ \A i \in DOMAIN all_results :
                        all_results[i].symbol = s =>
                            /\ all_results[i].has_score
                            /\ all_results[i].score = task[s].outcome.score
                            /\ all_results[i].qualified = task[s].outcome.qualified

\* C11 witness: the instrument master lists index underlyings, the scan
\* has returned, and the audit results hold a qualified and an unqualified
\* symbol, of which only the first is in the qualified list.
C11_Witness ==
    /\ scan_pc = "returned"
    /\ \E k \in DOMAIN fno_stocks : fno_stocks[k] \in IndexSymbols
    /\ \E i, j \in DOMAIN all_results :
          /\ all_results[i].has_score /\ all_results[i].qualified
          /\ all_results[j].has_score /\ ~all_results[j].qualified
          /\ \E k \in DOMAIN scored : scored[k] = all_results[i]
          /\ \A k \in DOMAIN scored : scored[k] # all_results[j]

\* the "Processing ..." calls among the calls made to progress_callback
ProcessingCalls == SelectSeq(progress_calls, LAMBDA c : c.msg = "Processing")

\* C12: the per-symbol calls to the progress callback are one per collected
\* symbol; the k-th of them reports processed = k and total = the number of
\* scanned symbols; the qualified count reported never decreases, is never
\* above the processed count, and, once every symbol is collected, there
\* were exactly total calls and the last reports the number of qualified
\* symbols; for every order the tasks complete in.
C12_ProgressCounts ==
    LET pcs == ProcessingCalls
        ncollected == Cardinality({s \in Stocks : task[s].state = "collected"})
    IN /\ Len(pcs) = ncollected
       /\ \A k \in DOMAIN pcs :
             /\ pcs[k].processed = k
             /\ pcs[k].total = Len(stock_list)
             /\ pcs[k].qualified <= pcs[k].processed
             /\ k > 1 => pcs[k].qualified >= pcs[k - 1].qualified
             /\ k > 1 => pcs[k].qualified <= pcs[k - 1].qualified + 1
       /\ scan_pc = "returned" =>
             /\ Len(pcs) = Len(stock_list)
             /\ pcs[Len(pcs)].processed = Len(stock_list)
             /\ pcs[Len(pcs)].qualified =
                   Cardinality({s \in Stocks : task[s].outcome.kind = "RESULT"
                                               /\ task[s].outcome.qualified})

\* C12 witness: the scan has returned after the tasks completed out of
\* submission order, with a qualified count that stood still on one call
\* and rose on another.
C12_Witness ==
    /\ scan_pc = "returned"
    /\ Len(all_results) >= 2
    /\ Pos(all_results[1].symbol) > Pos(all_results[2].symbol)
    /\ \E k \in DOMAIN ProcessingCalls :
          /\ k > 1
          /\ ProcessingCalls[k].qualified = ProcessingCalls[k - 1].qualified + 1
    /\ \E k \in DOMAIN ProcessingCalls :
          /\ k > 1
          /\ ProcessingCalls[k].qualified = ProcessingCalls[k - 1].qualified

\* C13: the trend candle fetch is issued for a symbol only if its score is
\* >= min_score: no task that scored below the threshold has fetched the
\* candles for trend detection.
C13_TrendFetchOnlyIfQualified ==
    \A s \in Stocks :
        task[s].outcome.trend_fetch =>
            /\ task[s].outcome.kind = "RESULT"
            /\ task[s].outcome.score >= min_score

(***************************************************************************)
(* Properties of the API client.                                           *)
(***************************************************************************)

ApiTerminal == {"returned", "raised", "exhausted"}

\* C14: a call through _api_call_with_retry invokes the wrapped function at
\* most MAX_API_RETRIES times; the k-th invocation, when it ends in a
\* rate-limit error, is followed by a sleep of API_BACKOFF_BASE_SECONDS^k,
\* longer than the one before, and no invocation follows it before that
\* sleep; a value returned by an invocation is what the call returns, with
\* no further invocation; when all MAX_API_RETRIES invocations were
\* rate-limited the call ends with an error; an ended call takes no further
\* step, and every call that has started ends.
C14_RetryTerminates ==
    /\ [](/\ Len(api_log) <= MAX_API_RETRIES
          /\ Len(api_log) = (IF api_pc = "calling" THEN attempt - 1 ELSE attempt)
          /\ Len(waits) = (IF api_pc \in {"calling", "exhausted"}
                           THEN Len(api_log)
                           ELSE IF api_pc = "idle" THEN 0 ELSE Len(api_log) - 1)
          /\ \A k \in DOMAIN waits :
                /\ api_log[k].kind = "error" /\ IsRateLimit(api_log[k].text)
                /\ waits[k] = Pow(API_BACKOFF_BASE_SECONDS, k)
                /\ k > 1 => waits[k] > waits[k - 1]
          /\ api_pc = "returned" =>
                /\ api_log[Len(api_log)].kind = "value"
                /\ api_out = api_log[Len(api_log)]
          /\ api_pc = "exhausted" =>
                /\ Len(api_log) = MAX_API_RETRIES
                /\ \A k \in DOMAIN api_log :
                      api_log[k].kind = "error" /\ IsRateLimit(api_log[k].text)
                /\ api_out.kind = "error")
    /\ [][(api_pc \in ApiTerminal) => (retryVars' = retryVars)]_vars
    /\ (api_pc = "calling" ~> api_pc \in ApiTerminal)

\* C14 witness: all MAX_API_RETRIES attempts were rate-limited, the sleeps
\* were 2, 4, 8, 16 and 32 seconds, and the call ended with the error.
C14_Witness ==
    /\ api_pc = "exhausted"
    /\ Len(api_log) = MAX_API_RETRIES
    /\ waits = <<2, 4, 8, 16, 32>>
    /\ api_out.kind = "error"

\* the exception texts that carry one of the two rate-limit messages
RateLimitTexts == {<<"Too", "many", "requests">>, <<"Rate", "limit", "exceeded">>}

\* C28: only rate-limit errors are retried: every invocation that is followed
\* by a wait or by another invocation ended in a rate-limit error; an
\* invocation that ends in any other error ends the call at that attempt with
\* that error as the call's outcome, no wait is made for it and nothing
\* follows it, whatever number of rate-limited attempts came before.
C28_OnlyRateLimitRetried ==
    /\ [](/\ \A k \in DOMAIN api_log :
                (k < Len(api_log) \/ k <= Len(waits)) =>
                    /\ api_log[k].kind = "error"
                    /\ api_log[k].text \in RateLimitTexts
          /\ \A k \in DOMAIN api_log :
                (api_log[k].kind = "error" /\ api_log[k].text \notin RateLimitTexts) =>
                    /\ k = Len(api_log)
                    /\ api_pc = "raised"
                    /\ attempt = k
                    /\ api_out = api_log[k]
                    /\ Len(waits) = k - 1)
    /\ [][(api_pc = "raised") => (retryVars' = retryVars)]_vars

\* C28 witness: two rate-limited attempts with their waits, then an error
\* that is no rate limit on the third attempt, which the caller gets
C28_Witness ==
    /\ api_pc = "raised"
    /\ attempt = 3
    /\ Len(api_log) = 3
    /\ waits = <<2, 4>>
    /\ api_out.text = <<"Too", "many", "orders">>

(***************************************************************************)
(* Properties of order entry.                                              *)
(***************************************************************************)

\* C15: in a LIVE place_spread_order call the long (hedge) leg's order is
\* sent before the short leg's, and the short leg's only after the long
\* leg's was placed; and for every ended call whose long leg was placed and
\* whose short leg's placement failed, a cancel of that long order was sent
\* and trade_log holds an ERROR row of the call.
C15_HedgeFirstAndRollback ==
    /\ \A j \in DOMAIN broker :
          broker[j].op = "SELL" =>
              \E i \in 1..(j - 1) :
                  /\ broker[i].call = broker[j].call
                  /\ broker[i].op = "BUY" /\ broker[i].ok
    /\ \A c \in DOMAIN ord_results :
          \A i, j \in DOMAIN broker :
              (/\ broker[i].call = c /\ broker[i].op = "BUY" /\ broker[i].ok
               /\ broker[j].call = c /\ broker[j].op = "SELL" /\ ~broker[j].ok) =>
                  /\ \E k \in DOMAIN broker :
                        /\ k > j
                        /\ broker[k].call = c /\ broker[k].op = "CANCEL"
                        /\ broker[k].id = broker[i].id
                  /\ \E r \in DOMAIN entry_log :
                        entry_log[r].call = c /\ entry_log[r].status = "ERROR"

(***************************************************************************)
(* Properties of strike selection.                                         *)
(***************************************************************************)

\* the number of listed strikes of the short leg's type and expiry that lie
\* from the long strike (inclusive) to the short strike (exclusive)
StepsBetween(rec, chain) ==
    LET lo == IF rec.long_strike < rec.short_strike THEN rec.long_strike ELSE rec.short_strike
        hi == IF rec.long_strike < rec.short_strike THEN rec.short_strike ELSE rec.long_strike
    IN Cardinality({chain[i].strike : i \in {j \in DOMAIN chain :
            /\ chain[j].instrument_type = rec.short_type
            /\ chain[j].expiry.kind \in {"date", "datetime"}
            /\ chain[j].expiry.day = rec.expiry
            /\ chain[j].strike >= lo /\ chain[j].strike <= hi
            /\ chain[j].strike # rec.short_strike}})

\* C16: a recommendation select_strikes returns has, for a Bullish trend,
\* type BULL_PUT, short_strike <= wall_price, short_strike < spot and the
\* long strike spread_width_strikes listed strikes below the short one;
\* for a Bearish trend, type BEAR_CALL, short_strike >= wall_price,
\* short_strike > spot and the long strike spread_width_strikes listed
\* strikes above; both legs are instruments of the chain, of one option
\* type (PE for BULL_PUT, CE for BEAR_CALL) and of the expiry returned.
C16_RecommendationShape ==
    (sel_pc = "returned" /\ sel_out.kind = "REC") =>
        LET a == sel_in
            r == sel_out
        IN /\ a.trend \in {"Bullish", "Bearish"}
           /\ a.trend = "Bullish" =>
                 /\ r.spread_type = "BULL_PUT" /\ r.short_type = "PE"
                 /\ r.short_strike <= a.wall_price
                 /\ r.short_strike < a.spot
                 /\ r.long_strike < r.short_strike
           /\ a.trend = "Bearish" =>
                 /\ r.spread_type = "BEAR_CALL" /\ r.short_type = "CE"
                 /\ r.short_strike >= a.wall_price
                 /\ r.short_strike > a.spot
                 /\ r.long_strike > r.short_strike
           /\ StepsBetween(r, a.option_chain) = a.spread_width_strikes
           /\ r.long_type = r.short_type
           /\ r.short_instrument.instrument_type = r.short_type
           /\ r.long_instrument.instrument_type = r.long_type
           /\ r.short_instrument.strike = r.short_strike
           /\ r.long_instrument.strike = r.long_strike
           /\ r.short_instrument.expiry.day = r.expiry
           /\ r.long_instrument.expiry.day = r.expiry
           /\ \E i, j \in DOMAIN a.option_chain :
                 /\ a.option_chain[i] = r.short_instrument
                 /\ a.option_chain[j] = r.long_instrument
           /\ a.target_expiry # NO_DATE => r.expiry = a.target_expiry

\* C16 witness: a bull put spread of width 2 was returned from a chain that
\* also lists instruments of another expiry, with the expiry resolved by
\* select_strikes itself.
C16_Witness ==
    /\ sel_pc = "returned"
    /\ sel_out.kind = "REC"
    /\ sel_in.trend = "Bullish"
    /\ sel_in.target_expiry = NO_DATE
    /\ sel_in.spread_width_strikes = 2
    /\ sel_out.short_strike = 30 /\ sel_out.long_strike = 10
    /\ \E i \in DOMAIN sel_in.option_chain :
          sel_in.option_chain[i].expiry.day = FAR_EXPIRY

\* the volume of the bins of profile p from va_low to va_high, both included
ValueAreaVolume(p) ==
    SumVol(SelectSeq(p.bins, LAMBDA b : p.va_low <= b.price /\ b.price <= p.va_high))

\* C17: every profile calculate_volume_profile returns has
\* va_low <= poc <= va_high, a total_volume that is the sum of its bin
\* volumes, a poc that is a bin of maximum volume, and at least
\* VP_VALUE_AREA_PCT percent of total_volume in the bins from va_low to va_high
C17_ProfileInvariants ==
    (vp_pc # "ready" /\ profile.kind = "PROFILE") =>
        /\ profile.va_low <= profile.poc
        /\ profile.poc <= profile.va_high
        /\ profile.total_volume = SumVol(profile.bins)
        /\ \E i \in DOMAIN profile.bins :
              /\ profile.bins[i].price = profile.poc
              /\ \A j \in DOMAIN profile.bins : profile.bins[j].vol <= profile.bins[i].vol
        /\ ValueAreaVolume(profile) * 100 >= profile.total_volume * VP_VALUE_AREA_PCT

\* a profile whose value area has grown beyond the poc and stops before the
\* last bin
C17_Witness ==
    /\ vp_pc = "profiled"
    /\ profile.kind = "PROFILE"
    /\ profile.va_low < profile.va_high
    /\ \E i \in DOMAIN profile.bins : profile.bins[i].price > profile.va_high
    /\ \E i \in DOMAIN profile.bins : profile.bins[i].vol < profile.total_volume

\* the prices of the bins of profile p that hold at least VP_HVN_MULTIPLIER
\* times the mean bin volume
QualifyingBins(p) ==
    {p.bins[i].price : i \in {j \in DOMAIN p.bins :
        p.bins[j].vol * Len(p.bins) * 10 >= SumVol(p.bins) * VP_HVN_MULTIPLIER_X10}}

\* C18: in every result of find_hvn_walls a wall that is not none is a
\* qualifying bin; support_wall is the highest qualifying bin below spot and
\* resistance_wall the lowest qualifying bin above spot; a wall is none exactly
\* when no qualifying bin lies on that side of spot
C18_HvnWalls ==
    (vp_pc = "walled" /\ profile.kind = "PROFILE") =>
        LET below == {q \in QualifyingBins(profile) : q < spot_price}
            above == {q \in QualifyingBins(profile) : q > spot_price}
        IN /\ (walls.support_wall = NO_WALL) <=> (below = {})
           /\ (walls.resistance_wall = NO_WALL) <=> (above = {})
           /\ walls.support_wall # NO_WALL =>
                 /\ walls.support_wall \in below
                 /\ \A q \in below : q <= walls.support_wall
           /\ walls.resistance_wall # NO_WALL =>
                 /\ walls.resistance_wall \in above
                 /\ \A q \in above : q >= walls.resistance_wall

\* a high-volume zone below spot gives a support wall while the low-volume
\* bins above spot give no resistance wall
C18_Witness ==
    /\ vp_pc = "walled"
    /\ profile.kind = "PROFILE"
    /\ walls.support_wall # NO_WALL
    /\ walls.resistance_wall = NO_WALL
    /\ \E i \in DOMAIN profile.bins : profile.bins[i].price > spot_price
    /\ \E i \in DOMAIN profile.bins :
          profile.bins[i].price < walls.support_wall /\ profile.bins[i].price \in walls.all_hvns

\* the bins a candle's [low, high] range touches, for bins of width w
TouchedBins(c, w) ==
    {q \in FloorBin(c.low, w)..FloorBin(c.high, w) : q % w = 0}

\* what the candles with positive volume owe to the bin at price q: volume / k
\* from each candle that touches it, k being the number of bins it touches
RECURSIVE ExpectedVolumeAt(_, _, _)
ExpectedVolumeAt(candles, q, w) ==
    IF candles = <<>> THEN 0
    ELSE LET c == candles[Len(candles)]
             before == ExpectedVolumeAt(SubSeq(candles, 1, Len(candles) - 1), q, w)
         IN IF c.volume > 0 /\ q \in TouchedBins(c, w)
            THEN before + c.volume \div Cardinality(TouchedBins(c, w))
            ELSE before

\* the volume profile p holds at price q, 0 where it has no bin
BinVolumeAt(p, q) ==
    IF \E i \in DOMAIN p.bins : p.bins[i].price = q
    THEN p.bins[CHOOSE i \in DOMAIN p.bins : p.bins[i].price = q].vol
    ELSE 0

\* C19: a returned profile holds, in every bin, volume / k from each candle
\* with positive volume that touches the bin (k bins from floor(low / bin_size)
\* * bin_size through floor(high / bin_size) * bin_size, one bin when high
\* equals low), and total_volume is the sum of the volumes of the candles with
\* positive volume
C19_VolumeDistribution ==
    (vp_pc # "ready" /\ profile.kind = "PROFILE") =>
        /\ \A q \in {profile.bins[i].price : i \in DOMAIN profile.bins}
                     \cup UNION {TouchedBins(vp_candles[i], profile.bin_size) :
                                    i \in DOMAIN vp_candles} :
              BinVolumeAt(profile, q) = ExpectedVolumeAt(vp_candles, q, profile.bin_size)
        /\ profile.total_volume = SumVolume(vp_candles)

\* C20: calculate_volume_profile returns a profile only if at least
\* MIN_CANDLES of the candles have positive volume and their average volume is
\* at least VP_MIN_ADV, and it does return one when both hold and a bin was
\* produced
C20_NoneUnlessLiquid ==
    vp_pc # "ready" =>
        LET positive == SelectSeq(vp_candles, LAMBDA c : c.volume > 0)
            liquid == /\ Len(positive) >= MIN_CANDLES
                      /\ SumVolume(positive) * VOLUME_UNIT >= VP_MIN_ADV * Len(positive)
            some_bin == \E i \in DOMAIN vp_candles :
                            vp_candles[i].volume > 0 /\ vp_candles[i].high > vp_candles[i].low
        IN /\ profile.kind = "PROFILE" => liquid
           /\ (liquid /\ some_bin) => profile.kind = "PROFILE"

(***************************************************************************)
(* Properties of the spread economics.                                     *)
(***************************************************************************)

ChainDays(chain) ==
    {chain[i].expiry.day : i \in {j \in DOMAIN chain : chain[j].expiry.kind # "none"}}

\* C22: find_nearest_monthly_expiry returns the earliest expiry of the chain
\* that is not before today, falls on a Wednesday or Thursday and has no later
\* expiry of the chain in its month; if there is none, the first expiry at
\* least 15 days out; else the nearest expiry not before today; none only
\* when the chain has no expiry that is not before today.  What it returns is
\* an expiry of the chain and not in the past
C22_NearestMonthlyExpiry ==
    exp_pc = "returned" /\ exp_chain # <<>> =>
        LET days == ChainDays(exp_chain)
            future == {d \in days : d >= exp_today}
            qualifying == {d \in future :
                              /\ Weekday(d) \in {2, 3}
                              /\ \A e \in days : MonthOf(e) = MonthOf(d) => e <= d}
            far == {d \in future : d >= exp_today + 15}
            Earliest(S) == CHOOSE x \in S : \A y \in S : x <= y
        IN /\ qualifying # {} => exp_out = Earliest(qualifying)
           /\ (qualifying = {} /\ far # {}) => exp_out = Earliest(far)
           /\ (qualifying = {} /\ far = {} /\ future # {}) => exp_out = Earliest(future)
           /\ (exp_out = NO_DATE) <=> (future = {})
           /\ exp_out # NO_DATE => (exp_out \in days /\ exp_out >= exp_today)

\* the Wednesday before a Thursday already past was returned although an
\* earlier expiry of the chain is still to come
C22_Witness ==
    /\ exp_pc = "returned"
    /\ exp_out # NO_DATE
    /\ Weekday(exp_out) = 2
    /\ \E d \in ChainDays(exp_chain) : d >= exp_today /\ d < exp_out
    /\ \E d \in ChainDays(exp_chain) : d < exp_today

(***************************************************************************)
(* Properties of the IV percentile.                                        *)
(***************************************************************************)
\* the number of readings of the history strictly below current_iv
ReadingsBelow(current_iv) ==
    Cardinality({i \in DOMAIN iv_history : iv_history[i] < current_iv})

\* C23 (as claimed): the score is 100 * (readings strictly below
\* current_iv) / (readings), lies in [0, 100], and over one history a larger
\* current_iv never has a smaller score
C23_IvpExact ==
    /\ \A i \in DOMAIN ivp_calls :
          /\ ivp_calls[i].score * Len(iv_history)
                 = 100 * 100 * ReadingsBelow(ivp_calls[i].current_iv)
          /\ ivp_calls[i].score >= 0
          /\ ivp_calls[i].score <= 100 * 100
    /\ \A i, j \in DOMAIN ivp_calls :
          ivp_calls[i].current_iv <= ivp_calls[j].current_iv
              => ivp_calls[i].score <= ivp_calls[j].score

\* C23 (amended): the score is 100 * (readings strictly below current_iv) /
\* (readings) rounded to two decimals, lies in [0, 100], and over one history
\* a larger current_iv never has a smaller score
C23_IvpRounded ==
    /\ \A i \in DOMAIN ivp_calls :
          /\ 2 * Abs(ivp_calls[i].score * Len(iv_history)
                         - 100 * 100 * ReadingsBelow(ivp_calls[i].current_iv))
                 <= Len(iv_history)
          /\ ivp_calls[i].score >= 0
          /\ ivp_calls[i].score <= 100 * 100
    /\ \A i, j \in DOMAIN ivp_calls :
          ivp_calls[i].current_iv <= ivp_calls[j].current_iv
              => ivp_calls[i].score <= ivp_calls[j].score

\* two scores over one history, the larger current_iv with the larger score,
\* a reading equal to the smaller current_iv, and a score that is not a whole
\* number of hundredths before rounding
C23_Witness ==
    /\ Len(ivp_calls) = 2
    /\ ivp_calls[1].current_iv < ivp_calls[2].current_iv
    /\ ivp_calls[1].score < ivp_calls[2].score
    /\ \E k \in DOMAIN iv_history : iv_history[k] = ivp_calls[1].current_iv
    /\ (100 * 100 * ReadingsBelow(ivp_calls[2].current_iv)) % Len(iv_history) # 0

(***************************************************************************)
(* Properties of the re-analysis.                                          *)
(***************************************************************************)

\* C24: two invocations of calculate_volume_profile, find_hvn_walls and
\* select_strikes (target_expiry left out) with identical arguments return
\* identical results, whatever time has passed between them
C24_Deterministic ==
    \A i, j \in DOMAIN ra_runs :
        /\ ra_runs[i].profile = ra_runs[j].profile
        /\ ra_runs[i].walls = ra_runs[j].walls
        /\ ra_runs[i].strikes = ra_runs[j].strikes

(***************************************************************************)
(* Properties of the implied-volatility solver.                            *)
(***************************************************************************)

ResolvedExpiry ==
    IF sel_in.target_expiry = NO_DATE
    THEN find_nearest_monthly_expiry(sel_in.option_chain, TODAY)
    ELSE sel_in.target_expiry

StrikesAt(type) ==
    {sel_in.option_chain[i].strike :
        i \in {j \in DOMAIN sel_in.option_chain :
                  /\ sel_in.option_chain[j].instrument_type = type
                  /\ sel_in.option_chain[j].expiry.kind \in {"date", "datetime"}
                  /\ sel_in.option_chain[j].expiry.day = ResolvedExpiry}}

NO_STRIKE == 0
\* the short strike of the claim among the candidate strikes S: the nearest
\* to the wall of those on the wall's far side, else the nearest to the wall
\* of all
ShortStrikeClaimed(beyond_wall, S, wall) ==
    LET from == IF beyond_wall # {} THEN beyond_wall ELSE S
    IN IF from = {} THEN NO_STRIKE
       ELSE CHOOSE k \in from : \A x \in from : Abs(k - wall) <= Abs(x - wall)

\* the strike that has exactly n - 1 strikes of S between it and the short
\* strike
NthBeyond(S, short, n) ==
    IF \E k \in S : Cardinality({x \in S : Abs(x - short) <= Abs(k - short)}) = n
    THEN CHOOSE k \in S : Cardinality({x \in S : Abs(x - short) <= Abs(k - short)}) = n
    ELSE NO_STRIKE

\* C26: for a Bullish trend the short strike is the highest PUT strike of the
\* resolved expiry that is <= wall_price and < spot, or else the PUT strike
\* below spot nearest to the wall; the long strike is the Nth PUT strike below
\* the short one; the result is none if no PUT strike is below spot or fewer
\* than N strikes are lower.  For a Bearish trend the same holds of the CALL
\* strikes above spot, the lowest strike >= wall_price and the strikes above
C26_StrikeChoice ==
    (sel_pc = "returned" /\ sel_in.trend \in {"Bullish", "Bearish"}) =>
        LET bull == sel_in.trend = "Bullish"
            otm == IF bull THEN {k \in StrikesAt("PE") : k < sel_in.spot}
                   ELSE {k \in StrikesAt("CE") : k > sel_in.spot}
            fit == IF bull THEN {k \in otm : k <= sel_in.wall_price}
                   ELSE {k \in otm : k >= sel_in.wall_price}
            short == ShortStrikeClaimed(fit, otm, sel_in.wall_price)
            further == IF bull THEN {k \in StrikesAt("PE") : k < short}
                       ELSE {k \in StrikesAt("CE") : k > short}
            long == NthBeyond(further, short, sel_in.spread_width_strikes)
        IN IF short = NO_STRIKE \/ long = NO_STRIKE
           THEN sel_out.kind = "NONE"
           ELSE /\ sel_out.kind = "REC"
                /\ sel_out.short_strike = short
                /\ sel_out.long_strike = long

\* no PUT strike was both <= wall and < spot, a PUT strike below spot was
\* there to fall back to, and with no strike below it the call returned none
C26_Witness ==
    /\ sel_pc = "returned"
    /\ sel_in.trend = "Bullish"
    /\ \E k \in StrikesAt("PE") : k < sel_in.spot
    /\ \A k \in StrikesAt("PE") : k < sel_in.spot => k > sel_in.wall_price
    /\ \E k \in StrikesAt("PE") : k > sel_in.spot
    /\ sel_out.kind = "NONE"

(***************************************************************************)
(* Properties of the value area.                                           *)
(***************************************************************************)

\* the expansion as stated: from the run lo..hi of the bins sorted by price,
\* holding volume acc, the adjacent bin of larger volume is added, the higher
\* one on a tie, until acc reaches the target or no bin is left on either
\* side; added is the index of the bin added last, 0 when none was added
RECURSIVE GreedyArea(_, _, _, _, _, _)
GreedyArea(sorted, total_volume, lo, hi, acc, added) ==
    IF acc * 100 >= total_volume * VP_VALUE_AREA_PCT
    THEN [lo |-> lo, hi |-> hi, acc |-> acc, added |-> added]
    ELSE IF lo = 1 /\ hi = Len(sorted)
    THEN [lo |-> lo, hi |-> hi, acc |-> acc, added |-> added]
    ELSE IF /\ hi < Len(sorted)
            /\ (lo = 1 \/ sorted[hi + 1].vol >= sorted[lo - 1].vol)
    THEN GreedyArea(sorted, total_volume, lo, hi + 1, acc + sorted[hi + 1].vol, hi + 1)
    ELSE GreedyArea(sorted, total_volume, lo - 1, hi, acc + sorted[lo - 1].vol, lo - 1)

\* the index of the bin of price poc among the bins sorted by price
PocIndex(sorted, poc) == CHOOSE i \in DOMAIN sorted : sorted[i].price = poc

\* C27: the value area of every profile is the run of bins the expansion from
\* the POC reaches when each step adds the adjacent bin of larger volume (the
\* higher on a tie) and stops at the first step at which the accumulated
\* volume reaches the target or when no bin is left on either side: the run
\* contains the POC, and without the bin added last it is below the target
C27_GreedyValueArea ==
    (vp_pc # "ready" /\ profile.kind = "PROFILE") =>
        LET sorted == SortByPrice(profile.bins)
            p == PocIndex(sorted, profile.poc)
            g == GreedyArea(sorted, profile.total_volume, p, p, sorted[p].vol, 0)
        IN /\ profile.va_low = sorted[g.lo].price
           /\ profile.va_high = sorted[g.hi].price
           /\ g.lo <= p /\ p <= g.hi
           /\ ValueAreaVolume(profile) = g.acc
           /\ \/ g.acc * 100 >= profile.total_volume * VP_VALUE_AREA_PCT
              \/ g.lo = 1 /\ g.hi = Len(sorted)
           /\ g.added # 0 =>
                 (g.acc - sorted[g.added].vol) * 100
                     < profile.total_volume * VP_VALUE_AREA_PCT

\* a profile whose POC lies between two bins of equal volume: the value area
\* holds the higher one and stops before the lower one
C27_Witness ==
    /\ vp_pc = "profiled"
    /\ profile.kind = "PROFILE"
    /\ LET sorted == SortByPrice(profile.bins)
           p == PocIndex(sorted, profile.poc)
       IN /\ 1 < p /\ p < Len(sorted)
          /\ sorted[p - 1].vol = sorted[p + 1].vol
          /\ profile.va_low = profile.poc
          /\ profile.va_high = sorted[p + 1].price

(***************************************************************************)
(* Properties of the executor.                                             *)
(***************************************************************************)

\* C30: from a trade log with at most one OPEN trade per symbol, through any
\* sequence of execute_trades runs (lists that name a symbol twice included)
\* no symbol ever has more than one OPEN trade; and the handling of a
\* recommendation whose symbol has an OPEN trade sends no order and writes
\* no row.
C30_OneOpenPerSymbol ==
    /\ [](\A symbol \in ExSymbols : ex_log[symbol].OPEN <= 1)
    /\ [][(ex_pc = "loop" /\ ex_log[ex_recs[ex_i]].OPEN >= 1) =>
              (ex_orders' = ex_orders /\ ex_log' = ex_log)]_vars

\* C30 witness: a list names AAA twice; the first recommendation placed both
\* legs and its OPEN row, the second was skipped as a duplicate
C30_Witness ==
    /\ ex_pc = "returned"
    /\ ex_recs = <<"AAA", "AAA">>
    /\ ex_last.kind = "DUPLICATE"
    /\ executed_count = 1
    /\ ex_orders["AAA"] = 2
    /\ ex_log["AAA"].OPEN = 1

====
